---- MODULE Spec2Model ----
(***************************************************************************)
(* State-machine model of the Micro SaaS KPI API: the in-memory job store  *)
(* (api/app/services/job_store.py), the async job runner and the           *)
(* orchestration fallback chain (api/routers/ask_text.py) and the          *)
(* narrative engine (api/app/services/analyze_service.py).                 *)
(*                                                                         *)
(* Python values are modelled as follows.                                  *)
(*   - Optional[T]: a sequence of length <= 1; None is << >>, a present    *)
(*     value v is <<v>>.                                                   *)
(*   - str: a TLA+ string when only its identity matters, a sequence of    *)
(*     one-character strings when the code inspects its characters.        *)
(*   - dict: a record (a function whose domain is the set of keys).        *)
(*   - a call that may raise: Ret(v) for a normal return of v, Raise(e)    *)
(*     for an exception whose str() is e.                                  *)
(*   - a dict object shared by reference: the job dicts live in JOBS and a *)
(*     reference to one is its job_id (one dict is allocated per id).      *)
(***************************************************************************)
EXTENDS Integers, Sequences, FiniteSets, TLC

\* ------------------------------------------------------------------ bounds
\* Jobs submitted through the async endpoint.
MaxJobs == 2
\* Largest value int(time.time()) takes.
MaxTime == 1
\* Longest enumerated question (fixed longer questions are listed besides).
MaxQLen == 3
\* Calls made at the job store interface in one run.
MaxCalls == 4
\* Months in a row sequence given to the narrative engine.
MaxRows == 2
\* The longest list of KPI changes handed to the anomaly detector.
MaxChanges == 2

\* ------------------------------------------------------------------ values
None == << >>
Some(v) == <<v>>
IsNone(o) == o = << >>
Val(o) == o[1]

Ret(v) == [kind |-> "return", value |-> v]
Raise(e) == [kind |-> "raise", error |-> e]
Returned(r) == r.kind = "return"
Raised(r) == r.kind = "raise"

\* ------------------------------------------------------------------ strings
UpperChars == <<"A","B","C","D","E","F","G","H","I","J","K","L","M",
                "N","O","P","Q","R","S","T","U","V","W","X","Y","Z">>
LowerChars == <<"a","b","c","d","e","f","g","h","i","j","k","l","m",
                "n","o","p","q","r","s","t","u","v","w","x","y","z">>
Whitespace == {" "}

\* str.lower() on one character.
lower_char(c) ==
    IF \E i \in 1..26 : UpperChars[i] = c
    THEN LowerChars[CHOOSE i \in 1..26 : UpperChars[i] = c]
    ELSE c

\* str.lower()
str_lower(s) == [i \in 1..Len(s) |-> lower_char(s[i])]

\* str.strip(): drop leading and trailing whitespace.
RECURSIVE lstrip(_)
lstrip(s) == IF s # << >> /\ Head(s) \in Whitespace THEN lstrip(Tail(s)) ELSE s
RECURSIVE rstrip(_)
rstrip(s) ==
    IF s # << >> /\ s[Len(s)] \in Whitespace THEN rstrip(SubSeq(s, 1, Len(s) - 1)) ELSE s
str_strip(s) == lstrip(rstrip(s))

\* Python's `k in s` for strings: k occurs in s as a contiguous substring.
RECURSIVE str_contains(_, _)
str_contains(k, s) ==
    IF Len(k) > Len(s) THEN FALSE
    ELSE IF SubSeq(s, 1, Len(k)) = k THEN TRUE
    ELSE str_contains(k, Tail(s))

\* ask_text.py line 81
multi_keywords ==
    << <<"p","e","r","f","o","r","m","a","n","c","e">>,
       <<"b","u","s","i","n","e","s","s">>,
       <<"o","v","e","r","a","l","l">>,
       <<"d","r","o","p">>,
       <<"w","h","y">> >>

\* ------------------------------------------------------------ narrative
Metrics == {"revenue", "orders", "customers", "aov"}

\* A fraction num/den standing for the float (b - a) / a.
Frac(n, d) == [num |-> n, den |-> d]

\* Whether the fraction f is < -0.10, the comparison of lines 109 and 112.
below_minus_ten_pct(f) ==
    IF f.den > 0 THEN 10 * f.num < -f.den ELSE 10 * f.num > -f.den

\* build_narrative's inner pct_change (lines 74-77); a is a float here.
narr_pct_change(a, b) == IF a = 0 THEN None ELSE Some(Frac(b - a, a))

\* float(x): raises TypeError on None.
to_float(o) == IF IsNone(o) THEN Raise("TypeError") ELSE Ret(Val(o))

NoDataTriple ==
    [narrative |-> [form |-> "no_data"], risk |-> "No risk signals.",
     recommendation |-> "Insert KPI data first."]

\* Lines 99-116: the revenue risk heuristic, once all four floats are known.
revenue_risk(aov_start, aov_end, orders_start, orders_end) ==
    LET aov_pct == narr_pct_change(aov_start, aov_end)
        orders_pct == narr_pct_change(orders_start, orders_end)
    IN  IF ~IsNone(aov_pct) /\ below_minus_ten_pct(Val(aov_pct))
        THEN [risk |-> "AOV dropped materially; revenue growth may be discount-driven.",
              recommendation |-> "Audit discounts, review product mix, and protect margin."]
        ELSE IF ~IsNone(orders_pct) /\ below_minus_ten_pct(Val(orders_pct))
        THEN [risk |-> "Orders dropped materially; demand or funnel may be weakening.",
              recommendation |->
                  "Investigate acquisition, conversion funnel, and retention actions."]
        ELSE [risk |-> "No major risk signals detected.",
              recommendation |->
                  "Identify which lever moved most (orders vs AOV) and double-down on that driver."]

\* Lines 118-127: the narrative text for a style; the headline's parts are
\* kept apart instead of being formatted into one string.
narrative_text(metric, first, last, start, end, style, nrows) ==
    LET chg == end - start
        headline ==
            [metric |-> metric,
             direction |-> IF chg > 0 THEN "increased"
                           ELSE IF chg < 0 THEN "decreased" ELSE "was flat",
             from |-> first.month, to |-> last.month,
             pct |-> narr_pct_change(start, end)]
    IN  IF style = "brief" THEN [headline |-> headline, form |-> "brief"]
        ELSE IF style = "detailed"
        THEN [headline |-> headline, form |-> "detailed", start |-> start,
              end |-> end, change |-> chg, data_points |-> nrows]
        ELSE [headline |-> headline, form |-> "focus"]

\* analyze_service.build_narrative (lines 67-129).
build_narrative(metric, rows, style) ==
    IF rows = << >> THEN Ret(NoDataTriple)
    ELSE
    LET first == rows[1]
        last == rows[Len(rows)]
        col == IF metric \in Metrics THEN metric ELSE "revenue"
        start == to_float(first[col])
        end == to_float(last[col])
    IN  IF Raised(start) THEN start
        ELSE IF Raised(end) THEN end
        ELSE
        LET text == narrative_text(metric, first, last, start.value, end.value,
                                   style, Len(rows))
        IN  IF metric # "revenue"
            THEN Ret([narrative |-> text,
                      risk |-> "No major risk signals detected.",
                      recommendation |-> "Keep monitoring trends."])
            ELSE
            LET aov_start == to_float(first.aov)
                aov_end == to_float(last.aov)
                orders_start == to_float(first.orders)
                orders_end == to_float(last.orders)
            IN  IF Raised(aov_start) THEN aov_start
                ELSE IF Raised(aov_end) THEN aov_end
                ELSE IF Raised(orders_start) THEN orders_start
                ELSE IF Raised(orders_end) THEN orders_end
                ELSE LET rr == revenue_risk(aov_start.value, aov_end.value,
                                            orders_start.value, orders_end.value)
                     IN  Ret([narrative |-> text, risk |-> rr.risk,
                              recommendation |-> rr.recommendation])

\* ------------------------------------------------------- AI narrative
\* The provider's reply is a sequence of lines; of a line the code inspects
\* what it starts with once upper-cased (head), whether it holds a colon, and
\* the stripped text after the first colon (body).
Line(h, c, b) == [head |-> h, colon |-> c, body |-> b]

\* _pick (lines 178-182): the first line starting with the prefix decides;
\* split(":", 1)[1] raises IndexError when that line holds no colon.
RECURSIVE pick(_, _)
pick(prefix, lines) ==
    IF lines = << >> THEN Ret("")
    ELSE IF Head(lines).head = prefix
    THEN IF Head(lines).colon THEN Ret(Head(lines).body) ELSE Raise("IndexError")
    ELSE pick(prefix, Tail(lines))

\* A try block that surfaces whatever sections the reply holds.
llm_try_block_partial(metric, rows, style, llm) ==
    IF llm.provider = "raise" THEN Raise("ProviderError")
    ELSE IF llm.provider = "no_choices" THEN Raise("IndexError")
    ELSE IF Raised(pick("INSIGHT", llm.lines)) THEN pick("INSIGHT", llm.lines)
    ELSE IF Raised(pick("RISK", llm.lines)) THEN pick("RISK", llm.lines)
    ELSE IF Raised(pick("RECOMMENDATION", llm.lines)) THEN pick("RECOMMENDATION", llm.lines)
    ELSE Ret([narrative |-> [form |-> "ai", text |-> pick("INSIGHT", llm.lines).value],
              risk |-> pick("RISK", llm.lines).value,
              recommendation |-> pick("RECOMMENDATION", llm.lines).value])

\* The try block of build_llm_narrative (lines 156-191). llm.provider is the
\* outcome of client.chat.completions.create: "raise", "no_choices" (an empty
\* choices list) or "reply" with llm.lines.
llm_try_block(metric, rows, style, llm) ==
    IF llm.provider = "raise" THEN Raise("ProviderError")
    ELSE IF llm.provider = "no_choices" THEN Raise("IndexError")
    ELSE
    LET insight == pick("INSIGHT", llm.lines)
        risk == pick("RISK", llm.lines)
        rec == pick("RECOMMENDATION", llm.lines)
    IN  IF Raised(insight) THEN insight
        ELSE IF Raised(risk) THEN risk
        ELSE IF Raised(rec) THEN rec
        ELSE IF insight.value = "" \/ risk.value = "" \/ rec.value = ""
        THEN build_narrative(metric, rows, style)
        ELSE Ret([narrative |-> [form |-> "ai", text |-> insight.value],
                  risk |-> risk.value, recommendation |-> rec.value])

\* analyze_service.build_llm_narrative (lines 143-194). llm.key: whether
\* OPENAI_API_KEY is set; llm.client: whether OpenAI(api_key=key) constructs
\* ("ok") or raises ("raise"); _get_client is called outside the try block.
build_llm_narrative(metric, rows, style, llm) ==
    IF rows = << >> THEN Ret(NoDataTriple)
    ELSE IF ~llm.key THEN build_narrative(metric, rows, style)
    ELSE IF llm.client = "raise" THEN Raise("ClientError")
    ELSE LET tried == llm_try_block(metric, rows, style, llm)
         IN  IF Raised(tried) THEN build_narrative(metric, rows, style) ELSE tried

\* ------------------------------------------------------ driver summary
\* driver_service._pct_change (lines 29-39): (curr - prev) / prev * 100.
driver_pct_change(prev, curr) ==
    IF IsNone(prev) \/ IsNone(curr) THEN None
    ELSE IF Val(prev) = 0 THEN None
    ELSE Some(Frac((Val(curr) - Val(prev)) * 100, Val(prev)))

Abs(n) == IF n < 0 THEN -n ELSE n
\* abs(f) >= abs(g) for fractions.
frac_abs_ge(f, g) == Abs(f.num) * Abs(g.den) >= Abs(g.num) * Abs(f.den)

MetricOrder == <<"revenue", "orders", "customers", "aov">>
NoVals == [k \in Metrics |-> None]

\* One pass of the loop of _extract_latest_two_months (lines 59-81) over
\* the legacy output `item`, from the accumulated `acc`.
extract_step(acc, item) ==
    LET rows == item.result.data
    IN  IF Len(rows) < 2 THEN acc
        ELSE
        LET row0 == rows[1]
            row1 == rows[2]
        IN  [latest_month |-> IF IsNone(acc.latest_month) THEN Some(row0.month)
                              ELSE acc.latest_month,
             previous_month |-> IF IsNone(acc.previous_month) THEN Some(row1.month)
                                ELSE acc.previous_month,
             latest_vals |-> [k \in Metrics |->
                 IF IsNone(acc.latest_vals[k]) THEN row0[k] ELSE acc.latest_vals[k]],
             prev_vals |-> [k \in Metrics |->
                 IF IsNone(acc.prev_vals[k]) THEN row1[k] ELSE acc.prev_vals[k]]]

\* driver_service._extract_latest_two_months (lines 42-83).
RECURSIVE extract_from(_, _)
extract_from(acc, outputs) ==
    IF outputs = << >> THEN acc
    ELSE extract_from(extract_step(acc, Head(outputs)), Tail(outputs))

extract_latest_two_months(outputs) ==
    extract_from([latest_month |-> None, previous_month |-> None,
                  latest_vals |-> NoVals, prev_vals |-> NoVals], outputs)

\* driver_service.build_driver_summary (lines 86-154). The two rendered
\* strings are kept as the values they embed.
build_driver_summary(outputs) ==
    LET x == extract_latest_two_months(outputs)
        rev_pct == driver_pct_change(x.prev_vals["revenue"], x.latest_vals["revenue"])
        ord_pct == driver_pct_change(x.prev_vals["orders"], x.latest_vals["orders"])
        aov_pct == driver_pct_change(x.prev_vals["aov"], x.latest_vals["aov"])
        cus_pct == driver_pct_change(x.prev_vals["customers"], x.latest_vals["customers"])
        changes == [revenue |-> rev_pct, orders |-> ord_pct, aov |-> aov_pct,
                    customers |-> cus_pct]
    IN  IF IsNone(rev_pct) \/ (IsNone(ord_pct) /\ IsNone(aov_pct))
        THEN [status |-> "insufficient_data",
              latest_month |-> x.latest_month, previous_month |-> x.previous_month,
              changes_pct |-> changes]
        ELSE
        LET main_driver ==
                IF ~IsNone(ord_pct) /\ ~IsNone(aov_pct)
                THEN IF frac_abs_ge(Val(ord_pct), Val(aov_pct)) THEN "orders" ELSE "aov"
                ELSE IF ~IsNone(ord_pct) THEN "orders" ELSE "aov"
        IN  [status |-> "ok",
             latest_month |-> x.latest_month, previous_month |-> x.previous_month,
             changes_pct |-> changes,
             main_driver |-> main_driver,
             executive_takeaway |-> IF main_driver = "orders" THEN "Orders" ELSE "AOV",
             executive_summary |->
                 IF ~IsNone(ord_pct) /\ ~IsNone(aov_pct)
                 THEN [form |-> "one_liner", revenue |-> rev_pct,
                       driver |-> IF main_driver = "orders" THEN "orders" ELSE "AOV",
                       orders |-> ord_pct, aov |-> aov_pct]
                 ELSE [form |-> "unavailable"]]

\* A build_driver_summary_from_rows whose main driver is the larger mover
\* only strictly: a tie goes to aov.
driver_decision_strict(latest_month, previous_month, rev_pct, ord_pct, aov_pct, cus_pct) ==
    LET changes == [revenue |-> rev_pct, orders |-> ord_pct, aov |-> aov_pct,
                    customers |-> cus_pct]
        main_driver ==
            IF ~IsNone(ord_pct) /\ ~IsNone(aov_pct)
            THEN IF frac_abs_ge(Val(aov_pct), Val(ord_pct)) THEN "aov" ELSE "orders"
            ELSE IF ~IsNone(ord_pct) THEN "orders" ELSE "aov"
    IN  IF IsNone(rev_pct) \/ (IsNone(ord_pct) /\ IsNone(aov_pct))
        THEN [status |-> "insufficient_data",
              latest_month |-> latest_month, previous_month |-> previous_month,
              changes_pct |-> changes]
        ELSE [status |-> "ok",
              latest_month |-> latest_month, previous_month |-> previous_month,
              changes_pct |-> changes,
              main_driver |-> main_driver,
              executive_takeaway |-> IF main_driver = "orders" THEN "Orders" ELSE "AOV",
              executive_summary |->
                  [form |-> "one_liner", revenue |-> rev_pct,
                   driver |-> IF main_driver = "orders" THEN "orders" ELSE "AOV",
                   orders |-> IF IsNone(ord_pct) THEN Some(Frac(0, 1)) ELSE ord_pct,
                   aov |-> IF IsNone(aov_pct) THEN Some(Frac(0, 1)) ELSE aov_pct]]

\* build_driver_summary_from_rows, lines 192-233: the summary once the
\* months and the four percent changes are known.
driver_decision(latest_month, previous_month, rev_pct, ord_pct, aov_pct, cus_pct) ==
    LET changes == [revenue |-> rev_pct, orders |-> ord_pct, aov |-> aov_pct,
                    customers |-> cus_pct]
        main_driver ==
            IF ~IsNone(ord_pct) /\ ~IsNone(aov_pct)
            THEN IF frac_abs_ge(Val(ord_pct), Val(aov_pct)) THEN "orders" ELSE "aov"
            ELSE IF ~IsNone(ord_pct) THEN "orders" ELSE "aov"
    IN  IF IsNone(rev_pct) \/ (IsNone(ord_pct) /\ IsNone(aov_pct))
        THEN [status |-> "insufficient_data",
              latest_month |-> latest_month, previous_month |-> previous_month,
              changes_pct |-> changes]
        ELSE [status |-> "ok",
              latest_month |-> latest_month, previous_month |-> previous_month,
              changes_pct |-> changes,
              main_driver |-> main_driver,
              executive_takeaway |-> IF main_driver = "orders" THEN "Orders" ELSE "AOV",
              executive_summary |->
                  [form |-> "one_liner", revenue |-> rev_pct,
                   driver |-> IF main_driver = "orders" THEN "orders" ELSE "AOV",
                   orders |-> IF IsNone(ord_pct) THEN Some(Frac(0, 1)) ELSE ord_pct,
                   aov |-> IF IsNone(aov_pct) THEN Some(Frac(0, 1)) ELSE aov_pct]]

\* build_driver_summary_from_rows, lines 184-233: prev = rows[-2] and
\* curr = rows[-1].
driver_from_last_two(prev, curr) ==
    driver_decision(Some(curr.month), Some(prev.month),
                    driver_pct_change(prev.revenue, curr.revenue),
                    driver_pct_change(prev.orders, curr.orders),
                    driver_pct_change(prev.aov, curr.aov),
                    driver_pct_change(prev.customers, curr.customers))

\* driver_service.build_driver_summary_from_rows (lines 170-233).
build_driver_summary_from_rows(rows) ==
    IF Len(rows) < 2
    THEN [status |-> "insufficient_data", latest_month |-> None, previous_month |-> None,
          changes_pct |-> NoVals]
    ELSE driver_from_last_two(rows[Len(rows) - 1], rows[Len(rows)])

\* ------------------------------------------------------ insight service
\* A _safe_div that tests b for None alone and divides by zero.
safe_div_unchecked(a, b) ==
    IF IsNone(a) \/ IsNone(b) THEN None
    ELSE Some(Frac(Val(a), Val(b)))

\* insight_service._safe_div (lines 18-21): a / b as an exact fraction.
safe_div(a, b) ==
    IF IsNone(a) \/ IsNone(b) THEN None
    ELSE IF Val(b) = 0 THEN None
    ELSE Some(Frac(Val(a), Val(b)))

\* insight_service._change (lines 24-29): (delta, pct).
change(prev, cur) ==
    IF IsNone(prev) \/ IsNone(cur) THEN [delta |-> None, pct |-> None]
    ELSE [delta |-> Some(Val(cur) - Val(prev)),
          pct |-> safe_div(Some(Val(cur) - Val(prev)), prev)]

\* Lines 53-66: the entry of `changes` for metric m.
kpi_change(m, base, target) ==
    [metric |-> m, previous |-> base[m], current |-> target[m],
     delta |-> change(base[m], target[m]).delta,
     pct_change |-> change(base[m], target[m]).pct]

\* A compute_latest_kpi_changes whose insufficient_data answer drops the
\* months it was given.
compute_latest_kpi_changes_no_echo(rows) ==
    IF Len(rows) < 2
    THEN [status |-> "insufficient_data", months |-> << >>, changes |-> << >>]
    ELSE [status |-> "ok", months |-> rows,
          changes |-> [i \in 1..4 |-> kpi_change(MetricOrder[i], rows[1], rows[2])]]

\* insight_service.compute_latest_kpi_changes (lines 32-68); rows is what
\* fetch_latest_two_months returned.
compute_latest_kpi_changes(rows) ==
    IF Len(rows) < 2
    THEN [status |-> "insufficient_data", months |-> rows, changes |-> << >>]
    ELSE [status |-> "ok", months |-> rows,
          changes |-> [i \in 1..4 |-> kpi_change(MetricOrder[i], rows[1], rows[2])]]

\* A scaling that ignores the scenario's delta.
sim_scale_no_change(cur, delta_pct) ==
    IF IsNone(cur) THEN None
    ELSE Some(Frac(Val(cur) * delta_pct.den, delta_pct.den))

\* simulate_kpi_what_if lines 144-145: cur * (1 + delta), None for None.
sim_scale(cur, delta_pct) ==
    IF IsNone(cur) THEN None
    ELSE Some(Frac(Val(cur) * (delta_pct.den + delta_pct.num), delta_pct.den))

\* Lines 147-149: sim_orders * sim_aov when both are known.
sim_product(sim_orders, sim_aov) ==
    IF IsNone(sim_orders) \/ IsNone(sim_aov) THEN None
    ELSE Some(Frac(Val(sim_orders).num * Val(sim_aov).num,
                   Val(sim_orders).den * Val(sim_aov).den))

\* Lines 151-153: sim_revenue - cur_revenue when both are known.
sim_impact(cur_revenue, sim_revenue) ==
    IF IsNone(cur_revenue) \/ IsNone(sim_revenue) THEN None
    ELSE Some(Frac(Val(sim_revenue).num - Val(cur_revenue) * Val(sim_revenue).den,
                   Val(sim_revenue).den))

\* Line 169: impact / cur_revenue if impact is not None and cur_revenue.
sim_impact_pct(impact, cur_revenue) ==
    IF ~IsNone(impact) /\ ~IsNone(cur_revenue) /\ Val(cur_revenue) # 0
    THEN Some(Frac(Val(impact).num, Val(impact).den * Val(cur_revenue)))
    ELSE None

\* Lines 155-171: the returned dict.
sim_result(current, scenario, sim_orders, sim_aov) ==
    [status |-> "ok",
     base |-> [orders |-> current.orders, aov |-> current.aov, revenue |-> current.revenue],
     scenario |-> scenario,
     simulated |-> [orders |-> sim_orders, aov |-> sim_aov,
                    revenue |-> sim_product(sim_orders, sim_aov)],
     impact |-> [revenue_delta |-> sim_impact(current.revenue, sim_product(sim_orders, sim_aov)),
                 revenue_delta_pct |->
                     sim_impact_pct(sim_impact(current.revenue, sim_product(sim_orders, sim_aov)),
                                    current.revenue)]]

\* Lines 135-171 on the current month months[1].
sim_current(current, scenario) ==
    sim_result(current, scenario,
               sim_scale(current.orders, scenario.orders_delta_pct),
               sim_scale(current.aov, scenario.aov_delta_pct))

\* insight_service.simulate_kpi_what_if (lines 119-171).
simulate_kpi_what_if(changes_payload, scenario) ==
    IF changes_payload.status # "ok" THEN changes_payload
    ELSE sim_current(changes_payload.months[2], scenario)

\* detect_anomalies line 80: the default thresholds, in percent.
DefaultThresholds == [revenue |-> 15, orders |-> 12, customers |-> 10, aov |-> 8]

\* The threshold of a metric missing from the thresholds dict (line 91).
FallbackThreshold == 10

\* thresholds.get(metric, 0.10), line 91, as a fraction.
threshold_of(thresholds, metric) ==
    IF metric \in DOMAIN thresholds THEN Frac(thresholds[metric], 100)
    ELSE Frac(FallbackThreshold, 100)

\* An anomaly test that flags only changes beyond the threshold.
is_anomaly_strict(pct, th) == Abs(pct.num) * th.den > th.num * Abs(pct.den)

\* abs(pct) >= th, line 92; th keeps its sign (its denominator is positive).
is_anomaly(pct, th) == Abs(pct.num) * th.den >= th.num * Abs(pct.den)

\* Lines 93-102: the alert for a flagged change; pct > 0 decides direction.
alert_of(metric, pct, th) ==
    [metric |-> metric,
     direction |-> IF pct.num * pct.den > 0 THEN "UP" ELSE "DOWN",
     pct_change |-> pct, threshold |-> th]

\* Lines 86-102: the loop over the changes, appending to alerts.
RECURSIVE collect_alerts(_, _, _)
collect_alerts(alerts, changes, thresholds) ==
    IF changes = << >> THEN alerts
    ELSE IF IsNone(Head(changes).pct_change)
    THEN collect_alerts(alerts, Tail(changes), thresholds)
    ELSE IF is_anomaly(Val(Head(changes).pct_change),
                       threshold_of(thresholds, Head(changes).metric))
    THEN collect_alerts(
             Append(alerts, alert_of(Head(changes).metric, Val(Head(changes).pct_change),
                                     threshold_of(thresholds, Head(changes).metric))),
             Tail(changes), thresholds)
    ELSE collect_alerts(alerts, Tail(changes), thresholds)

\* An aggregate risk that looks at the number of alerts first.
aggregate_risk_count_first(alerts) ==
    IF Len(alerts) >= 2 THEN "MEDIUM"
    ELSE IF \E i \in 1..Len(alerts) :
               alerts[i].metric = "revenue" /\ alerts[i].direction = "DOWN"
    THEN "HIGH"
    ELSE "LOW"

\* Lines 104-108: the aggregate risk.
aggregate_risk(alerts) ==
    IF \E i \in 1..Len(alerts) :
          alerts[i].metric = "revenue" /\ alerts[i].direction = "DOWN"
    THEN "HIGH"
    ELSE IF Len(alerts) >= 2 THEN "MEDIUM"
    ELSE "LOW"

\* Lines 110-116: the returned dict.
anomaly_result(changes_payload, alerts) ==
    [status |-> "ok", months |-> changes_payload.months,
     changes |-> changes_payload.changes, alerts |-> alerts,
     risk |-> aggregate_risk(alerts)]

\* insight_service.detect_anomalies (lines 70-116); thresholds is None or
\* the caller's dict.
detect_anomalies(changes_payload, thresholds) ==
    IF changes_payload.status # "ok" THEN changes_payload
    ELSE anomaly_result(changes_payload,
             collect_alerts(<< >>, changes_payload.changes,
                            IF IsNone(thresholds) THEN DefaultThresholds
                            ELSE Val(thresholds)))

\* ------------------------------------------------- orchestration chain
\* analyze_service._range_to_limit (lines 16-26); None is "no LIMIT".
range_to_limit(range_) ==
    IF range_ = "last_2_months" THEN Some(2)
    ELSE IF range_ = "last_3_months" THEN Some(3)
    ELSE IF range_ = "last_6_months" THEN Some(6)
    ELSE None

\* build_metric_sql and fetch_metric_rows (lines 29-60): ORDER BY month
\* DESC LIMIT n, then reversed: the newest n rows, oldest first. `table` is
\* kpi_monthly in month order; db = "raise" is a failing connection or query.
fetch_metric_rows(range_, db, table) ==
    IF db = "raise" THEN Raise("DbError")
    ELSE LET limit == range_to_limit(range_)
             n == IF IsNone(limit) \/ Val(limit) > Len(table) THEN Len(table)
                  ELSE Val(limit)
         IN  Ret(SubSeq(table, Len(table) - n + 1, Len(table)))

\* The Intent Parser on the fixed question "<m> last_3_months executive".
parse_metric_question(m) ==
    [metric |-> m, range |-> "last_3_months", style |-> "executive"]

\* Lines 145-158: the dict _ask_legacy_core returns, unless the narrative
\* call raised.
legacy_result(question, parsed, data, triple) ==
    IF Raised(triple) THEN triple
    ELSE Ret([question |-> question, parsed |-> parsed,
              result |-> [metric |-> parsed.metric, range |-> parsed.range,
                          style |-> parsed.style, data |-> data,
                          narrative |-> triple.value.narrative,
                          risk |-> triple.value.risk,
                          recommendation |-> triple.value.recommendation]])

\* Lines 132-143: try build_llm_narrative, except Exception: build_narrative.
narrative_or_fallback(llm, fallback) == IF Raised(llm) THEN fallback ELSE llm

\* Lines 132-158, once fetch_metric_rows has answered.
legacy_from_rows(question, parsed, env, rows) ==
    IF Raised(rows) THEN rows
    ELSE legacy_result(question, parsed, rows.value,
             narrative_or_fallback(
                 build_llm_narrative(parsed.metric, rows.value, parsed.style, env.llm),
                 build_narrative(parsed.metric, rows.value, parsed.style)))

\* ask_text._ask_legacy_core (lines 123-158); `parsed` is parse_question's
\* answer for the question.
ask_legacy_core(question, parsed, env) ==
    legacy_from_rows(question, parsed, env,
                     fetch_metric_rows(parsed.range, env.db, env.table))

\* any(k in q_lower for k in multi_keywords), line 82.
any_multi_keyword(q_lower) ==
    \E i \in 1..Len(multi_keywords) : str_contains(multi_keywords[i], q_lower)

\* what ask_agent returns when it does not raise.
AgentResult == [answer |-> "agent"]

\* Lines 89-109: the sub-steps after the four legacy analyses. env.decision
\* and env.report are the outcomes of build_decision_signals and
\* build_final_report.
multi_envelope(env, outputs) ==
    IF env.decision = "raise" THEN Raise("DecisionError")
    ELSE IF env.report = "raise" THEN Raise("ReportError")
    ELSE Ret([mode |-> "multi_metric_fallback",
              metrics |-> MetricOrder,
              driver_summary |-> build_driver_summary(outputs),
              decision |-> [risk_signal |-> "computed"],
              final_report |-> "report",
              results |-> outputs])

\* Lines 84-109: the first legacy analysis that raises ends the chain.
multi_from_outs(env, outs) ==
    IF \E i \in 1..4 : Raised(outs[i])
    THEN outs[CHOOSE i \in 1..4 : Raised(outs[i]) /\ \A j \in 1..(i-1) : Returned(outs[j])]
    ELSE multi_envelope(env, [i \in 1..4 |-> outs[i].value])

\* Lines 83-109: the multi-metric strategy.
multi_metric_fallback(env) ==
    multi_from_outs(env,
        [i \in 1..4 |->
            ask_legacy_core(<<MetricOrder[i], " last_3_months executive">>,
                            parse_metric_question(MetricOrder[i]), env)])

\* Lines 114-120: build_final_report and the envelope, once
\* _ask_legacy_core has answered.
legacy_envelope(env, legacy) ==
    IF Raised(legacy) THEN legacy
    ELSE IF env.report = "raise" THEN Raise("ReportError")
    ELSE Ret([mode |-> "fallback_legacy", legacy |-> legacy.value,
              final_report |-> "report"])

\* Lines 111-120: the single-metric strategy.
fallback_legacy(q, env) == legacy_envelope(env, ask_legacy_core(q, env.parsed, env))

\* ask_agent(q): the AI agent collaborator answers or raises.
ask_agent(q, env) == IF env.agent = "ok" THEN Ret(AgentResult) ELSE Raise("AgentError")

\* The chain with a case-sensitive keyword test (q.lower() missing).
run_agent_with_fallback_case_sensitive(question, env) ==
    LET q == str_strip(question)
        res == ask_agent(q, env)
    IN  IF Returned(res) THEN Ret([mode |-> "agent_llm", result |-> res.value])
        ELSE IF any_multi_keyword(q) THEN multi_metric_fallback(env)
        ELSE fallback_legacy(q, env)

\* ask_text._run_agent_with_fallback (lines 65-120).
run_agent_with_fallback(question, env) ==
    LET q == str_strip(question)
        res == ask_agent(q, env)
    IN  IF Returned(res) THEN Ret([mode |-> "agent_llm", result |-> res.value])
        ELSE IF any_multi_keyword(str_lower(q)) THEN multi_metric_fallback(env)
        ELSE fallback_legacy(q, env)

\* An ask_executive that answers like agent_query: the whole payload plus
\* the request's id and latency.
ask_executive_whole_payload(full, request_id, latency_ms) ==
    [request_id |-> request_id, latency_ms |-> latency_ms] @@ full

\* ask_text.ask_executive (lines 293-326), for a chain that returned `full`.
\* insert_agent_log is best-effort and does not touch the response.
ask_executive(full, request_id, latency_ms) ==
    LET final_report ==
            IF "final_report" \in DOMAIN full THEN Some(full.final_report)
            ELSE IF "result" \in DOMAIN full THEN Some(full.result)
            ELSE None
    IN  [request_id |-> request_id, mode |-> full.mode, latency_ms |-> latency_ms,
         final_report |-> final_report]

\* ask_text.agent_query (lines 253-275), for a chain that returned `result`:
\* result.update({...}) overrides the two keys.
agent_query(result, request_id, latency_ms) ==
    [request_id |-> request_id, latency_ms |-> latency_ms] @@ result

\* _build_debug_trace lines 196-206: the fallback decision, on the stripped
\* and lower-cased question, after ask_agent raised with str(e) = error.
debug_fallback(q, q_lower, error) ==
    [question |-> q,
     steps |-> << [name |-> "ask_agent", status |-> "failed", error |-> error],
                  [name |-> "fallback_decision", status |-> "ok",
                   reason |-> IF any_multi_keyword(q_lower) THEN "multi_keywords_match"
                              ELSE "single_metric_parse"] >>,
     mode |-> IF any_multi_keyword(q_lower) THEN "multi_metric_fallback"
              ELSE "fallback_legacy"]

\* Lines 178-194: the ask_agent step, whose call took latency_ms.
debug_agent_step(q, res, latency_ms) ==
    IF Returned(res)
    THEN [question |-> q,
          steps |-> << [name |-> "ask_agent", status |-> "ok", latency_ms |-> latency_ms] >>,
          mode |-> "agent_llm",
          artifacts |-> [agent_result_keys |-> DOMAIN res.value]]
    ELSE debug_fallback(q, str_lower(q), res.error)

\* A debug trace that decides the fallback on the question as typed.
build_debug_trace_case_sensitive(question, env, latency_ms) ==
    IF Returned(ask_agent(str_strip(question), env))
    THEN debug_agent_step(str_strip(question), ask_agent(str_strip(question), env), latency_ms)
    ELSE debug_fallback(str_strip(question), str_strip(question),
                        ask_agent(str_strip(question), env).error)

\* ask_text._build_debug_trace (lines 164-206).
build_debug_trace(question, env, latency_ms) ==
    debug_agent_step(str_strip(question), ask_agent(str_strip(question), env), latency_ms)

\* The columns insert_agent_log requires; error is optional.
LogColumns == {"question", "mode", "latency_ms", "status"}

\* agent_log_service.insert_agent_log (lines 29-49), called with the
\* positional arguments args and the keyword arguments kwargs on the table
\* `log`. The parameters are keyword-only (the bare * of line 30): a
\* positional argument, or a missing required keyword, is a TypeError raised
\* before the body runs. db is what get_conn and the INSERT do.
insert_agent_log(log, args, kwargs, db) ==
    IF Len(args) > 0 \/ ~(LogColumns \subseteq DOMAIN kwargs) THEN Raise("TypeError")
    ELSE IF db = "raise" THEN Raise("DbError")
    ELSE Ret(Append(log, [question |-> kwargs.question, mode |-> kwargs.mode,
                          latency_ms |-> kwargs.latency_ms, status |-> kwargs.status,
                          error |-> IF "error" \in DOMAIN kwargs THEN Some(kwargs.error)
                                    ELSE None]))

\* The best-effort logging of the sync handlers (lines 236-247, 261-272,
\* 308-319): `try: insert_agent_log({...}) except Exception: pass`, with the
\* record passed as one positional dict.
log_best_effort(log, inserted) == IF Returned(inserted) THEN inserted.value ELSE log

\* The table after a sync handler served `question` with chain outcome
\* `out`; a chain that raises leaves the handler before the logging.
log_after_request(log, question, out, latency_ms, db) ==
    IF Raised(out) THEN log
    ELSE log_best_effort(log,
             insert_agent_log(log,
                 << [request_id |-> "request_id", question |-> question,
                     mode |-> out.value.mode, status |-> "ok",
                     latency_ms |-> latency_ms] >>,
                 << >>, db))

\* ask_text.agent_debug (lines 335-347).
agent_debug(trace, request_id, latency_ms) ==
    [request_id |-> request_id, latency_ms |-> latency_ms, trace |-> trace]

\* ------------------------------------------------------------ job store
VARIABLES
    JOBS,      \* job_store._JOBS: job_id -> the job dict
    LOCK,      \* job_store._LOCK: None, or the job whose task is inside `with _LOCK`
    now,       \* the last value int(time.time()) returned
    runner,    \* per job: where its background task _run_job stands
    poller,    \* the thread serving GET /jobs/{job_id}
    held,      \* store interface: the reference the last create/get returned
    handed,    \* store interface: the content of that dict when it was returned
    calls,     \* store interface: calls made so far
    request,   \* the request being served (sync endpoints) or the last store call
    response,  \* what the handler or the store call produced
    agent_query_log  \* the rows of the table agent_query_log, in insertion order

vars == <<JOBS, LOCK, now, runner, poller, held, handed, calls, request, response,
          agent_query_log>>

Terminal == {"SUCCEEDED", "FAILED"}

\* new_job_id (lines 13-14): uuid4 is modelled as the next unused id.
new_job_id(jobs) == Cardinality(DOMAIN jobs) + 1

\* The dict create_job builds (lines 23-31).
new_job(job_id, t, payload) ==
    [job_id |-> job_id, status |-> "PENDING", created_at |-> t, updated_at |-> t,
     payload |-> payload, result |-> None, error |-> None]

\* job_store.create_job (lines 17-34): the registry after the insert. The
\* function returns the inserted dict itself, i.e. the reference job_id.
create_job(jobs, t, payload) ==
    LET job_id == new_job_id(jobs)
    IN  jobs @@ (job_id :> new_job(job_id, t, payload))

\* A set_job_result that forgets to store the result, and a set_job_error
\* that forgets to store the error.
mark_writes_status_only(op, arg, t) ==
    IF op = "set_job_running"
    THEN << [field |-> "status", value |-> "RUNNING"],
            [field |-> "updated_at", value |-> t] >>
    ELSE IF op = "set_job_result"
    THEN << [field |-> "status", value |-> "SUCCEEDED"],
            [field |-> "updated_at", value |-> t] >>
    ELSE << [field |-> "status", value |-> "FAILED"],
            [field |-> "updated_at", value |-> t] >>

\* The assignments a mark operation makes inside `with _LOCK`, in order
\* (lines 40-41, 47-49, 55-57); t is int(time.time()) at the last one.
mark_writes(op, arg, t) ==
    IF op = "set_job_running"
    THEN << [field |-> "status", value |-> "RUNNING"],
            [field |-> "updated_at", value |-> t] >>
    ELSE IF op = "set_job_result"
    THEN << [field |-> "status", value |-> "SUCCEEDED"],
            [field |-> "result", value |-> Some(arg)],
            [field |-> "updated_at", value |-> t] >>
    ELSE << [field |-> "status", value |-> "FAILED"],
            [field |-> "error", value |-> Some(arg)],
            [field |-> "updated_at", value |-> t] >>

\* A mark operation that writes the field of every job of the registry.
mark_write_all_jobs(jobs, op, job_id, arg, t, k) ==
    IF job_id \notin DOMAIN jobs THEN jobs
    ELSE [j \in DOMAIN jobs |->
             [jobs[j] EXCEPT ![mark_writes(op, arg, t)[k].field] =
                                 mark_writes(op, arg, t)[k].value]]

\* A mark operation without the `if job_id in _JOBS` test: the assignment
\* makes a record for an unknown job_id.
mark_write_upsert(jobs, op, job_id, arg, t, k) ==
    LET w == mark_writes(op, arg, t)[k]
    IN  IF job_id \notin DOMAIN jobs
        THEN jobs @@ (job_id :> [new_job(job_id, t, None) EXCEPT ![w.field] = w.value])
        ELSE [jobs EXCEPT ![job_id][w.field] = w.value]

\* The k-th assignment of a mark operation applied to the registry; the
\* operations are no-ops on an unknown job_id (lines 39, 46, 54).
mark_write(jobs, op, job_id, arg, t, k) ==
    IF job_id \notin DOMAIN jobs THEN jobs
    ELSE LET w == mark_writes(op, arg, t)[k]
         IN  [jobs EXCEPT ![job_id][w.field] = w.value]

\* A whole mark operation: set_job_running, set_job_result, set_job_error.
RECURSIVE mark_from(_, _, _, _, _, _)
mark_from(jobs, op, job_id, arg, t, k) ==
    IF k > Len(mark_writes(op, arg, t)) THEN jobs
    ELSE mark_from(mark_write(jobs, op, job_id, arg, t, k), op, job_id, arg, t, k + 1)

mark(jobs, op, job_id, arg, t) == mark_from(jobs, op, job_id, arg, t, 1)

\* job_store.get_job (lines 60-62): _JOBS.get(job_id), a reference to the
\* stored dict (its job_id) or None.
get_job(jobs, job_id) == IF job_id \in DOMAIN jobs THEN Some(job_id) ELSE None

\* The upper clamp of list_jobs (line 69).
ListCap == 200

\* list.sort(key=created_at, reverse=True) (line 68), one insertion: the
\* sort is stable, so `job` goes behind every job whose created_at is not
\* smaller than its own.
RECURSIVE sort_insert(_, _)
sort_insert(sorted, job) ==
    IF sorted = << >> THEN <<job>>
    ELSE IF Head(sorted).created_at >= job.created_at
    THEN <<Head(sorted)>> \o sort_insert(Tail(sorted), job)
    ELSE <<job>> \o sorted

\* The first n values of _JOBS (dict order is insertion order, i.e. the
\* order of the job ids), sorted newest first.
RECURSIVE sorted_jobs(_, _)
sorted_jobs(jobs, n) ==
    IF n = 0 THEN << >> ELSE sort_insert(sorted_jobs(jobs, n - 1), jobs[n])

Max(a, b) == IF a >= b THEN a ELSE b
Min(a, b) == IF a <= b THEN a ELSE b

\* job_store.list_jobs (lines 65-69): jobs[: max(1, min(limit, 200))].
list_jobs(jobs, limit) ==
    LET all == sorted_jobs(jobs, Cardinality(DOMAIN jobs))
    IN  [data |-> SubSeq(all, 1, Min(Len(all), Max(1, Min(limit, ListCap))))]

\* ------------------------------------------------------------ inputs
KpiRow(m, rev, ord, cus, aov) ==
    [month |-> m, revenue |-> rev, orders |-> ord, customers |-> cus, aov |-> aov]

\* Three seeded months, oldest first, with a revenue drop in the last one.
SeededTable ==
    << KpiRow(1, Some(100), Some(10), Some(5), Some(10)),
       KpiRow(2, Some(120), Some(12), Some(6), Some(10)),
       KpiRow(3, Some(90), Some(10), Some(6), Some(9)) >>

\* A table whose newest month holds null KPI values.
NullTable ==
    << KpiRow(1, Some(100), Some(10), Some(5), Some(10)),
       KpiRow(2, None, Some(12), None, None) >>

ValidReply ==
    << Line("INSIGHT", TRUE, "ai insight"), Line("RISK", TRUE, "ai risk"),
       Line("RECOMMENDATION", TRUE, "ai recommendation") >>

NoKeyLlm == [key |-> FALSE, client |-> "ok", provider |-> "raise", lines |-> << >>]
ReplyLlm(lines) == [key |-> TRUE, client |-> "ok", provider |-> "reply", lines |-> lines]

ParsedRevenue == [metric |-> "revenue", range |-> "last_3_months", style |-> "executive"]
ParsedOrders == [metric |-> "orders", range |-> "ytd", style |-> "basic"]

\* An environment in which every collaborator answers.
EnvOk ==
    [agent |-> "ok", db |-> "ok", table |-> SeededTable, llm |-> NoKeyLlm,
     decision |-> "ok", report |-> "ok", parsed |-> ParsedRevenue]

QWhy == <<"W", "h", "y", "?">>
QAov == <<"a", "o", "v">>

\* The questions and environments of the async jobs.
JobQuestions == {QWhy}
JobEnvs ==
    { EnvOk,
      [EnvOk EXCEPT !.agent = "raise"],
      [EnvOk EXCEPT !.agent = "raise", !.db = "raise"] }

\* ------------------------------------------------- async job execution
MarkOps == {"set_job_running", "set_job_result", "set_job_error"}

\* The mutable fields of a job dict in the order the response encoder
\* reads them (dict order); job_id, created_at and payload never change.
ReadOrder == <<"status", "updated_at", "result", "error">>

\* A background task that skips set_job_running.
run_job_start_skip_running == [op |-> "chain", k |-> 0, arg |-> None]

\* _run_job (lines 212-214): the task's first call is set_job_running.
run_job_start == [op |-> "set_job_running", k |-> 0, arg |-> None]

\* _run_job (lines 212-218): what follows a finished mark operation.
after_mark(op) ==
    IF op = "set_job_running" THEN [op |-> "chain", k |-> 0, arg |-> None]
    ELSE [op |-> "done", k |-> 0, arg |-> None]

\* A _run_job without its except clause: the exception ends the task.
after_chain_unhandled(out) ==
    IF Returned(out) THEN [op |-> "set_job_result", k |-> 0, arg |-> out.value]
    ELSE [op |-> "done", k |-> 0, arg |-> None]

\* _run_job (lines 215-218): the call that follows the chain's outcome.
after_chain(out) ==
    IF Returned(out) THEN [op |-> "set_job_result", k |-> 0, arg |-> out.value]
    ELSE [op |-> "set_job_error", k |-> 0, arg |-> out.error]

IdleInterface ==
    /\ held = None /\ handed = None /\ calls = 0

IdleEndpoints ==
    /\ request = None /\ response = None

Init ==
    /\ agent_query_log = << >>
    /\ JOBS = << >>
    /\ LOCK = None
    /\ now = 0
    /\ runner = << >>
    /\ poller = [pc |-> "idle", ref |-> None, view |-> << >>]
    /\ IdleInterface
    /\ IdleEndpoints

\* agent_query_async (lines 279-290): create_job, then add_task.
Submit ==
    /\ LOCK = None
    /\ Cardinality(DOMAIN JOBS) < MaxJobs
    /\ \E q \in JobQuestions, t \in now..MaxTime :
        /\ JOBS' = create_job(JOBS, t, [type |-> "agent_query", input |-> [question |-> q]])
        /\ now' = t
        /\ runner' = runner @@ (new_job_id(JOBS) :> run_job_start)
    /\ UNCHANGED <<agent_query_log, LOCK, poller, held, handed, calls, request, response>>

\* A lock that stays with the task after the with block.
lock_after_write_kept(j, last) == Some(j)

\* `with _LOCK:` (lines 38, 45, 53): the lock is held by job j's task from
\* the first assignment of the block and released after the last one.
lock_after_write(j, last) == IF last THEN None ELSE Some(j)

\* One assignment of the mark operation job j's background task is in; the
\* first one follows the acquisition of _LOCK, the last one releases it.
MarkStep(j) ==
    /\ runner[j].op \in MarkOps
    /\ LOCK = IF runner[j].k = 0 THEN None ELSE Some(j)
    /\ LET op == runner[j].op
           k == runner[j].k + 1
           last == k = Len(mark_writes(op, runner[j].arg, now))
       IN  IF last
           THEN \E t \in now..MaxTime :
                   /\ JOBS' = mark_write(JOBS, op, j, runner[j].arg, t, k)
                   /\ now' = t
                   /\ LOCK' = lock_after_write(j, TRUE)
                   /\ runner' = [runner EXCEPT ![j] = after_mark(op)]
           ELSE /\ JOBS' = mark_write(JOBS, op, j, runner[j].arg, now, k)
                /\ now' = now
                /\ LOCK' = lock_after_write(j, FALSE)
                /\ runner' = [runner EXCEPT ![j].k = k]
    /\ UNCHANGED <<agent_query_log, poller, held, handed, calls, request, response>>

\* _run_job lines 215-218 for every job question and environment: the
\* runner's next call after _run_agent_with_fallback(question).
JobOutcomes ==
    [q \in JobQuestions |->
        {after_chain(run_agent_with_fallback(q, env)) : env \in JobEnvs}]

\* _run_job line 215: the chain runs outside the lock.
RunChain(j) ==
    /\ runner[j].op = "chain"
    /\ \E next \in JobOutcomes[JOBS[j].payload.input.question] :
        runner' = [runner EXCEPT ![j] = next]
    /\ UNCHANGED <<agent_query_log, JOBS, LOCK, now, poller, held, handed, calls, request, response>>

\* jobs.read_job (lines 8-13): get_job under the lock; 404 when absent,
\* else the dict itself goes to the response encoder.
PollGet ==
    /\ LOCK = None
    /\ poller.pc = "idle"
    /\ \E id \in 1..MaxJobs :
        LET job == get_job(JOBS, id)
        IN  poller' =
              IF IsNone(job) THEN [pc |-> "not_found", ref |-> None, view |-> << >>]
              ELSE [pc |-> "reading", ref |-> job,
                    view |-> [f \in {"job_id", "created_at", "payload"} |-> JOBS[id][f]]]
    /\ UNCHANGED <<agent_query_log, JOBS, LOCK, now, runner, held, handed, calls, request, response>>

\* The response encoder reads the next field of the dict it was given.
PollRead ==
    /\ poller.pc = "reading"
    /\ LET f == CHOOSE g \in {ReadOrder[i] : i \in 1..Len(ReadOrder)} :
                    /\ g \notin DOMAIN poller.view
                    /\ \A i, i2 \in 1..Len(ReadOrder) :
                          (ReadOrder[i2] = g /\ i < i2) => ReadOrder[i] \in DOMAIN poller.view
           view == poller.view @@ (f :> JOBS[Val(poller.ref)][f])
       IN  poller' = [poller EXCEPT !.view = view,
                         !.pc = IF f = ReadOrder[Len(ReadOrder)] THEN "encoded" ELSE "reading"]
    /\ UNCHANGED <<agent_query_log, JOBS, LOCK, now, runner, held, handed, calls, request, response>>

\* The encoded body (or the 404) is sent and the request ends.
PollRespond ==
    /\ poller.pc \in {"encoded", "not_found"}
    /\ poller' = [pc |-> "idle", ref |-> None, view |-> << >>]
    /\ UNCHANGED <<agent_query_log, JOBS, LOCK, now, runner, held, handed, calls, request, response>>

\* The background tasks' steps.
Run == \E j \in DOMAIN runner : MarkStep(j) \/ RunChain(j)

Next ==
    \/ Submit
    \/ \E j \in DOMAIN runner : MarkStep(j)
    \/ \E j \in DOMAIN runner : RunChain(j)

\* The async endpoint and its background tasks.
Spec == Init /\ [][Next]_vars

\* Starlette runs every background task it was given, in a worker thread
\* that is never suspended for ever: a task that can step eventually does.
FairSpec == Spec /\ WF_vars(Run)

PollNext ==
    \/ Next
    \/ PollGet
    \/ PollRead
    \/ PollRespond

\* The same with a client polling GET /jobs/{job_id} concurrently.
PollSpec == Init /\ [][PollNext]_vars

\* -------------------------------------------------- job store interface
\* One payload, one result and one error string for the interface calls.
StorePayload == [type |-> "agent_query", input |-> [question |-> QWhy]]
StoreResult == [mode |-> "agent_llm", result |-> AgentResult]
StoreError == "boom"

\* The limits list_jobs is called with: negative, zero, around the number
\* of jobs, and around the clamp.
ListLimits == (-1..(MaxJobs + 1)) \cup {ListCap, ListCap + 1}

\* The call a thread makes at the store interface, as kept in `request`.
StoreCall(name, id) == Some([call |-> name, id |-> id])

\* create_job called by some thread; the caller keeps what it returns.
CallCreate ==
    /\ calls < MaxCalls
    /\ Cardinality(DOMAIN JOBS) < MaxJobs
    /\ \E t \in now..MaxTime :
        /\ JOBS' = create_job(JOBS, t, StorePayload)
        /\ now' = t
        /\ held' = Some(new_job_id(JOBS))
        /\ handed' = Some(JOBS'[new_job_id(JOBS)])
    /\ calls' = calls + 1
    /\ request' = StoreCall("create_job", new_job_id(JOBS))
    /\ response' = None
    /\ UNCHANGED <<agent_query_log, LOCK, runner, poller>>

\* get_job(id) called by some thread; the caller keeps what it returns.
CallGet(id) ==
    /\ calls < MaxCalls
    /\ held' = get_job(JOBS, id)
    /\ handed' = IF id \in DOMAIN JOBS THEN Some(JOBS[id]) ELSE None
    /\ calls' = calls + 1
    /\ request' = StoreCall("get_job", id)
    /\ response' = None
    /\ UNCHANGED <<agent_query_log, JOBS, LOCK, now, runner, poller>>

\* set_job_running, set_job_result or set_job_error called with any id.
CallMark(op, id, arg) ==
    /\ calls < MaxCalls
    /\ \E t \in now..MaxTime :
        /\ JOBS' = mark(JOBS, op, id, arg, t)
        /\ now' = IF id \in DOMAIN JOBS THEN t ELSE now
    /\ calls' = calls + 1
    /\ request' = StoreCall(op, id)
    /\ response' = None
    /\ UNCHANGED <<agent_query_log, LOCK, runner, poller, held, handed>>

\* jobs.read_job (lines 8-13) answering GET /jobs/{id}: the job, or the
\* HTTPException 404 with code NOT_FOUND.
read_job(jobs, id) ==
    IF IsNone(get_job(jobs, id))
    THEN [status_code |-> 404, code |-> "NOT_FOUND"]
    ELSE [status_code |-> 200, job |-> jobs[id]]

\* GET /jobs/{id} served for any id.
CallReadJob(id) ==
    /\ calls < MaxCalls
    /\ calls' = calls + 1
    /\ request' = StoreCall("read_job", id)
    /\ response' = Some(read_job(JOBS, id))
    /\ UNCHANGED <<agent_query_log, JOBS, LOCK, now, runner, poller, held, handed>>

\* list_jobs(limit) called by some thread.
CallList(limit) ==
    /\ calls < MaxCalls
    /\ calls' = calls + 1
    /\ request' = StoreCall("list_jobs", limit)
    /\ response' = Some(list_jobs(JOBS, limit))
    /\ UNCHANGED <<agent_query_log, JOBS, LOCK, now, runner, poller, held, handed>>

StoreNext ==
    \/ CallCreate
    \/ \E id \in 1..MaxJobs : CallGet(id)
    \/ \E id \in 1..MaxJobs : CallMark("set_job_running", id, None)
    \/ \E id \in 1..MaxJobs : CallMark("set_job_result", id, StoreResult)
    \/ \E id \in 1..MaxJobs : CallMark("set_job_error", id, StoreError)
    \/ \E id \in 1..MaxJobs : CallReadJob(id)
    \/ \E limit \in ListLimits : CallList(limit)

\* The job store driven through its interface, one call at a time (every
\* operation runs inside `with _LOCK`).
StoreSpec == Init /\ [][StoreNext]_vars

\* ------------------------------------------------------ sync endpoints
QAlphabet == {"W", "h", "y", " "}
QWhyDrop == <<"W","h","y"," ","d","i","d"," ","r","e","v","e","n","u","e"," ",
              "d","r","o","p","?">>
QDropUpper == <<"R","e","v","e","n","u","e"," ","D","R","O","P">>
QOverall == <<" ","O","v","e","r","a","l","l"," ","v","i","e","w"," ">>
QBusiness == <<"b","u","s","i","n","e","s","s">>
QPerformance == <<"M","y"," ","P","e","r","f","o","r","m","a","n","c","e">>
QPerform == <<"p","e","r","f","o","r","m">>
QRevenue == <<"r","e","v","e","n","u","e"," ","y","t","d">>

\* Every string over QAlphabet of length <= MaxQLen, and the fixed ones.
Questions ==
    UNION { [1..n -> QAlphabet] : n \in 0..MaxQLen }
        \cup {QWhy, QAov, QWhyDrop, QDropUpper, QOverall, QBusiness, QPerformance,
              QPerform, QRevenue}

ChainEnvs ==
    { [agent |-> a, db |-> d, table |-> t, llm |-> l, decision |-> dec,
       report |-> rep, parsed |-> p] :
        a \in {"ok", "raise"}, d \in {"ok", "raise"},
        t \in {SeededTable, NullTable, << >>},
        l \in {NoKeyLlm, ReplyLlm(ValidReply)},
        dec \in {"ok", "raise"}, rep \in {"ok", "raise"},
        p \in {ParsedRevenue, ParsedOrders} }

IdleJobs ==
    /\ agent_query_log = << >>
    /\ JOBS = << >> /\ LOCK = None /\ now = 0 /\ runner = << >>
    /\ poller = [pc |-> "idle", ref |-> None, view |-> << >>]

\* A request has arrived at a sync endpoint, in some environment.
ChainInit ==
    /\ IdleJobs
    /\ IdleInterface
    /\ request \in {Some([question |-> q, env |-> e]) : q \in Questions, e \in ChainEnvs}
    /\ response = None

\* What a sync handler answers from the chain's outcome `out`: the body it
\* builds, or the exception the framework turns into a server error.
handler_response(endpoint, out) ==
    Some([endpoint |-> endpoint, chain |-> out,
          body |-> IF Raised(out) THEN out
                   ELSE IF endpoint = "ask_executive"
                   THEN Ret(ask_executive(out.value, "request_id", 0))
                   ELSE Ret(agent_query(out.value, "request_id", 0))])

\* A sync handler serves the request: the chain runs, the request is
\* logged best-effort, the body is answered.
Serve(endpoint, out) ==
    /\ IsNone(response)
    /\ response' = handler_response(endpoint, out)
    /\ agent_query_log' = log_after_request(agent_query_log, Val(request).question, out, 0,
                                            Val(request).env.db)
    /\ UNCHANGED <<JOBS, LOCK, now, runner, poller, held, handed, calls, request>>

\* POST /ask-executive (lines 293-326).
AskExecutive ==
    Serve("ask_executive", run_agent_with_fallback(Val(request).question, Val(request).env))

\* POST /agent/query (lines 253-275).
AgentQuery ==
    Serve("agent_query", run_agent_with_fallback(Val(request).question, Val(request).env))

\* POST /ask-text (lines 224-250).
AskText ==
    Serve("ask_text", run_agent_with_fallback(Val(request).question, Val(request).env))

ChainNext ==
    \/ AskExecutive
    \/ AgentQuery
    \/ AskText

\* One request to a sync endpoint, for every question and environment.
ChainSpec == ChainInit /\ [][ChainNext]_vars

\* -------------------------------------------------------- debug trace
\* int((time.time() - t0) * 1000) of a step or of the request.
Latencies == {0, 7}

\* POST /agent/debug (lines 335-347).
AgentDebug ==
    /\ IsNone(response)
    /\ \E step_ms \in Latencies :
        response' = Some([endpoint |-> "agent_debug",
                          body |-> Ret(agent_debug(
                              build_debug_trace(Val(request).question, Val(request).env, step_ms),
                              "request_id", step_ms))])
    /\ UNCHANGED <<agent_query_log, JOBS, LOCK, now, runner, poller, held, handed, calls, request>>

DebugNext == AgentDebug

\* One request to the debug endpoint, for every question and environment.
DebugSpec == ChainInit /\ [][DebugNext]_vars

\* ----------------------------------------------------- narrative engine
NarrMetrics == Metrics \cup {"profit"}
NarrStyles == {"brief", "detailed", "executive"}

\* KPI values of one month: complete, zero, and with nulls.
NarrValues ==
    { [revenue |-> Some(100), orders |-> Some(10), customers |-> Some(5), aov |-> Some(10)],
      [revenue |-> Some(90), orders |-> Some(10), customers |-> Some(5), aov |-> Some(9)],
      [revenue |-> Some(0), orders |-> Some(0), customers |-> Some(0), aov |-> Some(0)],
      [revenue |-> None, orders |-> Some(10), customers |-> Some(5), aov |-> Some(10)],
      [revenue |-> Some(100), orders |-> None, customers |-> None, aov |-> None] }

\* Row sequences of up to MaxRows months; the month is the row's position.
NarrRows ==
    UNION { { [i \in 1..n |-> KpiRow(i, v[i].revenue, v[i].orders, v[i].customers, v[i].aov)] :
                v \in [1..n -> NarrValues] } : n \in 0..MaxRows }

NarrLlms ==
    { NoKeyLlm,
      [key |-> TRUE, client |-> "raise", provider |-> "raise", lines |-> << >>],
      [key |-> TRUE, client |-> "ok", provider |-> "raise", lines |-> << >>],
      [key |-> TRUE, client |-> "ok", provider |-> "no_choices", lines |-> << >>],
      ReplyLlm(ValidReply),
      ReplyLlm(<< >>),
      ReplyLlm(<< Line("INSIGHT", TRUE, "ai insight"), Line("RISK", TRUE, "ai risk") >>),
      ReplyLlm(<< Line("INSIGHT", TRUE, "ai insight"), Line("RISK", TRUE, ""),
                  Line("RECOMMENDATION", TRUE, "ai recommendation") >>),
      ReplyLlm(<< Line("OTHER", TRUE, "preamble"), Line("RECOMMENDATION", TRUE, "ai recommendation"),
                  Line("RISK", FALSE, ""), Line("INSIGHT", TRUE, "ai insight") >>) }

\* A call of the narrative engine is about to be made.
NarrInit ==
    /\ IdleJobs
    /\ IdleInterface
    /\ request \in {Some([metric |-> m, rows |-> r, style |-> st, llm |-> l]) :
                      m \in NarrMetrics, r \in NarrRows, st \in NarrStyles, l \in NarrLlms}
    /\ response = None

\* build_llm_narrative(metric, rows, style=style)
Narrate ==
    /\ IsNone(response)
    /\ LET r == Val(request)
       IN  response' = Some([via |-> "build_llm_narrative",
                             out |-> build_llm_narrative(r.metric, r.rows, r.style, r.llm)])
    /\ UNCHANGED <<agent_query_log, JOBS, LOCK, now, runner, poller, held, handed, calls, request>>

\* build_narrative(metric, rows, style=style), the rule-based path alone.
NarrateRuleBased ==
    /\ IsNone(response)
    /\ LET r == Val(request)
       IN  response' = Some([via |-> "build_narrative",
                             out |-> build_narrative(r.metric, r.rows, r.style)])
    /\ UNCHANGED <<agent_query_log, JOBS, LOCK, now, runner, poller, held, handed, calls, request>>

NarrNext ==
    \/ Narrate
    \/ NarrateRuleBased

\* One call of the narrative engine, for every input.
NarrSpec == NarrInit /\ [][NarrNext]_vars

\* ------------------------------------------------- KPI computations
\* KPI values of one month: a base month, movers of orders and aov (equal,
\* orders larger, aov larger), zeros and nulls, and a month whose stored aov
\* is revenue / orders rounded (100 / 3 stored as 33).
KpiValues ==
    { [revenue |-> Some(100), orders |-> Some(10), customers |-> Some(5), aov |-> Some(10)],
      [revenue |-> Some(121), orders |-> Some(11), customers |-> Some(5), aov |-> Some(11)],
      [revenue |-> Some(108), orders |-> Some(12), customers |-> Some(6), aov |-> Some(9)],
      [revenue |-> Some(80), orders |-> Some(10), customers |-> Some(4), aov |-> Some(8)],
      [revenue |-> Some(115), orders |-> None, customers |-> None, aov |-> Some(12)],
      [revenue |-> Some(85), orders |-> Some(9), customers |-> Some(5), aov |-> None],
      [revenue |-> None, orders |-> Some(10), customers |-> Some(5), aov |-> Some(10)],
      [revenue |-> Some(0), orders |-> Some(0), customers |-> Some(0), aov |-> Some(0)],
      [revenue |-> Some(100000), orders |-> Some(1000), customers |-> Some(50), aov |-> Some(100)],
      [revenue |-> Some(100), orders |-> Some(3), customers |-> Some(2), aov |-> Some(33)] }

\* Row sequences of up to MaxRows months; the month is the row's position.
KpiRows ==
    UNION { { [i \in 1..n |-> KpiRow(i, v[i].revenue, v[i].orders, v[i].customers, v[i].aov)] :
                v \in [1..n -> KpiValues] } : n \in 0..MaxRows }

\* The scenarios of POST /agent/simulate (SimulationRequest), in percent.
Scenarios ==
    { [orders_delta_pct |-> Frac(o, 100), aov_delta_pct |-> Frac(a, 100),
       customers_delta_pct |-> Frac(c, 100)] :
        o \in {0, 10}, a \in {0, -5}, c \in {0, 3} }

\* The four legacy outputs of the multi-metric strategy over the same rows;
\* build_driver_summary reads result.data alone.
legacy_outputs(rows) == [i \in 1..4 |-> [result |-> [data |-> rows]]]

\* A KPI computation is about to be made on some rows.
KpiInit ==
    /\ IdleJobs
    /\ IdleInterface
    /\ request \in {Some([rows |-> r, scenario |-> sc]) : r \in KpiRows, sc \in Scenarios}
    /\ response = None

\* build_driver_summary_from_rows(rows)
DriverFromRows ==
    /\ IsNone(response)
    /\ response' = Some([via |-> "build_driver_summary_from_rows",
                         out |-> build_driver_summary_from_rows(Val(request).rows)])
    /\ UNCHANGED <<agent_query_log, JOBS, LOCK, now, runner, poller, held, handed, calls, request>>

\* build_driver_summary(outputs)
DriverFromOutputs ==
    /\ IsNone(response)
    /\ response' = Some([via |-> "build_driver_summary",
                         out |-> build_driver_summary(legacy_outputs(Val(request).rows))])
    /\ UNCHANGED <<agent_query_log, JOBS, LOCK, now, runner, poller, held, handed, calls, request>>

\* compute_latest_kpi_changes() on the rows fetch_latest_two_months returns
KpiChanges ==
    /\ IsNone(response)
    /\ response' = Some([via |-> "compute_latest_kpi_changes",
                         out |-> compute_latest_kpi_changes(Val(request).rows)])
    /\ UNCHANGED <<agent_query_log, JOBS, LOCK, now, runner, poller, held, handed, calls, request>>

\* POST /agent/simulate (ask_text.py lines 400-413).
AgentSimulate ==
    /\ IsNone(response)
    /\ response' = Some([via |-> "agent_simulate",
                         out |-> simulate_kpi_what_if(
                                     compute_latest_kpi_changes(Val(request).rows),
                                     Val(request).scenario)])
    /\ UNCHANGED <<agent_query_log, JOBS, LOCK, now, runner, poller, held, handed, calls, request>>

KpiNext ==
    \/ DriverFromRows
    \/ DriverFromOutputs
    \/ KpiChanges
    \/ AgentSimulate

\* One KPI computation, for every input.
KpiSpec == KpiInit /\ [][KpiNext]_vars

\* --------------------------------------------------- anomaly detector
\* The metrics of a change entry: the four KPIs and one without a default
\* threshold.
ChangeMetrics == Metrics \cup {"margin"}

\* The pct_change values of a change entry, in percent: null, no change, and
\* at, below and above the thresholds, up and down.
ChangePcts == {None} \cup {Some(Frac(p, 100)) : p \in {15, -15, 12, 10, 8, 7, 0}}

ChangeEntries == {[metric |-> m, pct_change |-> p] : m \in ChangeMetrics, p \in ChangePcts}

\* Change lists of up to MaxChanges entries.
ChangeLists == UNION { [1..n -> ChangeEntries] : n \in 0..MaxChanges }

\* The thresholds argument: absent, or the caller's dict (any floats pass
\* InsightRequest, zero and negative ones included).
ThresholdArgs == {None, Some([revenue |-> 20]), Some([revenue |-> 0, orders |-> -5])}

\* detect_anomalies is about to be called on a changes payload.
AnomalyInit ==
    /\ IdleJobs
    /\ IdleInterface
    /\ request \in
          {Some([payload |-> [status |-> "ok", months |-> << >>, changes |-> c],
                 thresholds |-> th]) : c \in ChangeLists, th \in ThresholdArgs}
          \cup {Some([payload |-> [status |-> "insufficient_data", months |-> << >>,
                                   changes |-> << >>],
                      thresholds |-> None])}
    /\ response = None

\* detect_anomalies(changes, thresholds=payload.thresholds)
DetectAnomalies ==
    /\ IsNone(response)
    /\ response' = Some([via |-> "detect_anomalies",
                         out |-> detect_anomalies(Val(request).payload,
                                                  Val(request).thresholds)])
    /\ UNCHANGED <<agent_query_log, JOBS, LOCK, now, runner, poller, held, handed, calls, request>>

AnomalyNext == DetectAnomalies

\* One call of the anomaly detector, for every input.
AnomalySpec == AnomalyInit /\ [][AnomalyNext]_vars

\* ============================================================== claims
AllowedTransitions ==
    { <<"PENDING", "RUNNING">>, <<"RUNNING", "SUCCEEDED">>, <<"RUNNING", "FAILED">> }

\* C1: a job submitted through the async endpoint enters the store as
\* PENDING, and every later change of its stored status is PENDING ->
\* RUNNING, RUNNING -> SUCCEEDED or RUNNING -> FAILED, whatever the other
\* jobs do: no step skips RUNNING, goes back, or leaves a terminal status.
C1_StatusOrder ==
    [][ /\ \A j \in DOMAIN JOBS :
            /\ j \in DOMAIN JOBS'
            /\ JOBS'[j].status # JOBS[j].status
                  => <<JOBS[j].status, JOBS'[j].status>> \in AllowedTransitions
        /\ \A j \in DOMAIN JOBS' \ DOMAIN JOBS : JOBS'[j].status = "PENDING" ]_vars

\* C1 witness: one job went PENDING, RUNNING, SUCCEEDED and another one
\* PENDING, RUNNING, FAILED.
C1_Witness ==
    \E j, k \in DOMAIN JOBS :
        /\ JOBS[j].status = "SUCCEEDED" /\ runner[j].op = "done"
        /\ JOBS[k].status = "FAILED" /\ runner[k].op = "done"

\* The shape of a job between store operations.
JobShapeOk(job) ==
    /\ job.status \in {"PENDING", "RUNNING", "SUCCEEDED", "FAILED"}
    /\ job.status = "PENDING" => IsNone(job.result) /\ IsNone(job.error)
    /\ job.status = "SUCCEEDED" => ~IsNone(job.result) /\ IsNone(job.error)
    /\ job.status = "FAILED" => ~IsNone(job.error) /\ IsNone(job.result)

C4_JobsTerminate ==
    \A j \in 1..MaxJobs :
        /\ (j \in DOMAIN JOBS) ~> (j \in DOMAIN JOBS /\ JOBS[j].status \in Terminal)
        /\ (j \in DOMAIN runner /\ runner[j].op = "set_job_error")
              ~> (j \in DOMAIN JOBS /\ JOBS[j].status = "FAILED" /\ ~IsNone(JOBS[j].error))

\* C4 witness: a job whose chain raised is FAILED with the error string and
\* its task has ended.
C4_Witness ==
    \E j \in DOMAIN JOBS :
        /\ runner[j].op = "done"
        /\ JOBS[j].status = "FAILED"
        /\ JOBS[j].error = Some("DbError")

\* C3: at the store interface, once a job's status is SUCCEEDED or FAILED,
\* no later set_job_running / set_job_result / set_job_error call changes
\* its status, result or error.
C3_TerminalFrozen ==
    [][\A j \in DOMAIN JOBS :
          JOBS[j].status \in Terminal =>
              /\ JOBS'[j].status = JOBS[j].status
              /\ JOBS'[j].result = JOBS[j].result
              /\ JOBS'[j].error = JOBS[j].error]_vars

\* The question, lower-cased character by character, holds keyword kw at
\* offset i.
KeywordAt(question, kw, i) ==
    /\ i + Len(kw) <= Len(question)
    /\ \A k \in 1..Len(kw) : lower_char(question[i + k]) = kw[k]

\* The lower-cased question contains one of performance, business, overall,
\* drop, why as a substring.
ContainsKeyword(question) ==
    \E n \in 1..Len(multi_keywords), i \in 0..Len(question) :
        KeywordAt(question, multi_keywords[n], i)

\* C5: the chain answers in mode agent_llm exactly when the agent call
\* returns; when the agent raises, its exception does not reach the caller,
\* and a chain that returns answers in mode multi_metric_fallback exactly
\* when the lower-cased question contains a keyword, and in mode
\* fallback_legacy otherwise.
C5_ModeSelection ==
    ~IsNone(response) =>
        LET env == Val(request).env
            question == Val(request).question
            out == Val(response).chain
        IN  /\ env.agent = "ok" => Returned(out) /\ out.value.mode = "agent_llm"
            /\ env.agent = "raise" =>
                  /\ Raised(out) => out.error # "AgentError"
                  /\ Returned(out) =>
                        /\ out.value.mode \in {"multi_metric_fallback", "fallback_legacy"}
                        /\ out.value.mode = "multi_metric_fallback" <=> ContainsKeyword(question)

\* C5 witness: the agent raised on a question whose keyword is spelled with
\* a capital, and the chain answered in mode multi_metric_fallback.
C5_Witness ==
    /\ ~IsNone(response)
    /\ Val(request).env.agent = "raise"
    /\ Val(request).question = QDropUpper
    /\ Returned(Val(response).chain)
    /\ Val(response).chain.value.mode = "multi_metric_fallback"

\* The four legacy analyses of the multi-metric strategy all return.
LegacyReturns(env) ==
    \A i \in 1..4 :
        Returned(ask_legacy_core(<<MetricOrder[i], " last_3_months executive">>,
                                 parse_metric_question(MetricOrder[i]), env))

\* C6: in the multi_metric_fallback strategy a failing decision signal
\* builder or report formatter is caught, and the chain still returns the
\* multi_metric_fallback envelope with a final_report.
C6_SubStepFailuresDegrade ==
    ( /\ ~IsNone(response)
      /\ Val(request).env.agent = "raise"
      /\ ContainsKeyword(Val(request).question)
      /\ LegacyReturns(Val(request).env)
      /\ Val(request).env.decision = "raise" \/ Val(request).env.report = "raise" )
    => /\ Returned(Val(response).chain)
       /\ Val(response).chain.value.mode = "multi_metric_fallback"
       /\ "final_report" \in DOMAIN Val(response).chain.value

\* C7: for every metric, style, row sequence and failure of the AI path,
\* the narrative engine returns a triple and does not raise.
C7_NarrativeNeverRaises ==
    ~IsNone(response) => Returned(Val(response).out)

IntermediateFields == {"driver_summary", "decision", "results", "legacy", "result"}

\* C8: whenever the chain returns, the ask-executive body has the keys
\* request_id, mode, latency_ms and final_report, the mode being the
\* chain's, and none of driver_summary, decision, results, legacy, result.
C8_ExecutiveKeys ==
    (~IsNone(response) /\ Val(response).endpoint = "ask_executive" /\ Returned(Val(response).chain)) =>
        LET body == Val(response).body.value
        IN  /\ {"request_id", "mode", "latency_ms", "final_report"} \subseteq DOMAIN body
            /\ DOMAIN body \cap IntermediateFields = {}
            /\ body.mode = Val(response).chain.value.mode

\* C8 witness: ask-executive answered a chain that returned the
\* multi_metric_fallback envelope with its intermediate fields.
C8_Witness ==
    /\ ~IsNone(response)
    /\ Val(response).endpoint = "ask_executive"
    /\ Returned(Val(response).chain)
    /\ Val(response).chain.value.mode = "multi_metric_fallback"
    /\ {"driver_summary", "decision", "results"} \subseteq DOMAIN Val(response).chain.value
    /\ Returned(Val(response).body)

\* C9: the body the encoder built for GET /jobs/{job_id} shows SUCCEEDED
\* only with a non-null result and FAILED only with a non-null error.
C9_NoTornRead ==
    poller.pc = "encoded" =>
        /\ poller.view.status = "SUCCEEDED" => ~IsNone(poller.view.result)
        /\ poller.view.status = "FAILED" => ~IsNone(poller.view.error)

\* C10: the record create_job or get_job handed to a caller still has the
\* content it had when it was returned, whatever mark operations followed.
C10_ReturnedCopy ==
    ~IsNone(held) => JOBS[Val(held)] = Val(handed)

\* C11: for a job id that is not in the store, set_job_running,
\* set_job_result and set_job_error leave the whole registry unchanged,
\* get_job returns None, and GET /jobs/{job_id} answers 404 NOT_FOUND.
C11_UnknownIdNoOp ==
    [][\A id \in 1..MaxJobs :
          id \notin DOMAIN JOBS =>
              /\ ( \/ CallMark("set_job_running", id, None)
                   \/ CallMark("set_job_result", id, StoreResult)
                   \/ CallMark("set_job_error", id, StoreError) ) => JOBS' = JOBS
              /\ CallGet(id) => held' = None /\ JOBS' = JOBS
              /\ CallReadJob(id) =>
                    /\ response' = Some([status_code |-> 404, code |-> "NOT_FOUND"])
                    /\ JOBS' = JOBS]_vars

\* C11 witness: set_job_result was just called with an id the store does
\* not hold, beside a job it does hold.
C11_Witness ==
    /\ request = StoreCall("set_job_result", 2)
    /\ DOMAIN JOBS = {1}

\* C12: list_jobs(limit) returns min(number of jobs, max(1, min(limit,
\* 200))) jobs, the most recently created ones, newest first: a job created
\* later comes earlier, also among jobs created within the same second.
C12_ListNewestFirst ==
    (~IsNone(request) /\ "call" \in DOMAIN Val(request) /\ Val(request).call = "list_jobs") =>
        LET data == Val(response).data
            n == Cardinality(DOMAIN JOBS)
            limit == Val(request).id
            k == Min(n, Max(1, Min(limit, ListCap)))
        IN  /\ Len(data) = k
            /\ \A i \in 1..k : data[i].job_id = n - i + 1

\* C13: in the multi_metric_fallback strategy the driver summary takes the
\* last retrieved row (rows are oldest first) as the latest month and the
\* row before it as the previous month, and every changes_pct value is the
\* change from that previous month to that latest month.
C13_DriverLatestMonth ==
    ( /\ ~IsNone(response)
      /\ "chain" \in DOMAIN Val(response)
      /\ Returned(Val(response).chain)
      /\ Val(response).chain.value.mode = "multi_metric_fallback" ) =>
        LET rows == Val(response).chain.value.results[1].result.data
            n == Len(rows)
            ds == Val(response).chain.value.driver_summary
        IN  n >= 2 =>
              /\ ds.latest_month = Some(rows[n].month)
              /\ ds.previous_month = Some(rows[n - 1].month)
              /\ \A k \in Metrics :
                    ds.changes_pct[k] = driver_pct_change(rows[n - 1][k], rows[n][k])

\* The percent change of metric k from row prev to row curr is computable.
Computable(prev, curr, k) ==
    ~IsNone(prev[k]) /\ ~IsNone(curr[k]) /\ Val(prev[k]) # 0

\* |orders pct| >= |aov pct|, by cross-multiplication of the two quotients.
OrdersMoveMost(prev, curr) ==
    Abs(Val(curr.orders) - Val(prev.orders)) * Abs(Val(prev.aov))
        >= Abs(Val(curr.aov) - Val(prev.aov)) * Abs(Val(prev.orders))

\* The main driver the rule gives for a pair of months.
ExpectedDriver(prev, curr) ==
    IF Computable(prev, curr, "orders") /\ Computable(prev, curr, "aov")
    THEN IF OrdersMoveMost(prev, curr) THEN "orders" ELSE "aov"
    ELSE IF Computable(prev, curr, "orders") THEN "orders" ELSE "aov"

\* The summary `out` follows the main-driver rule for the pair of months.
DriverRuleHolds(prev, curr, out) ==
    LET ok == /\ Computable(prev, curr, "revenue")
              /\ Computable(prev, curr, "orders") \/ Computable(prev, curr, "aov")
    IN  /\ out.status = "ok" <=> ok
        /\ ~ok => out.status = "insufficient_data" /\ "main_driver" \notin DOMAIN out
        /\ ok => out.main_driver = ExpectedDriver(prev, curr)

\* C14: for the pair of months a driver summary function reads as previous
\* and current (build_driver_summary_from_rows: the last two rows;
\* build_driver_summary: rows[1] and rows[0]), the status is ok with a main
\* driver iff the revenue change and one of the orders and aov changes are
\* computable, else insufficient_data without main driver; the main driver
\* is orders when |orders pct| >= |aov pct| (ties included) or when only
\* orders is computable, and aov otherwise.
C14_MainDriver ==
    (~IsNone(response) /\ "via" \in DOMAIN Val(response) /\ Len(Val(request).rows) >= 2) =>
        LET rows == Val(request).rows
            n == Len(rows)
            out == Val(response).out
        IN  /\ Val(response).via = "build_driver_summary_from_rows"
                  => DriverRuleHolds(rows[n - 1], rows[n], out)
            /\ Val(response).via = "build_driver_summary"
                  => DriverRuleHolds(rows[2], rows[1], out)

\* C14 witness: orders and aov both moved by 10% and the summary names
\* orders as the main driver.
C14_Witness ==
    /\ ~IsNone(response)
    /\ Val(response).via = "build_driver_summary_from_rows"
    /\ Len(Val(request).rows) = 2
    /\ Val(request).rows[1].orders = Some(10) /\ Val(request).rows[2].orders = Some(11)
    /\ Val(request).rows[1].aov = Some(10) /\ Val(request).rows[2].aov = Some(11)
    /\ Val(response).out.status = "ok"
    /\ Val(response).out.main_driver = "orders"

\* C15: for a row sequence of length 0 or 1 the driver decomposition and
\* the KPI change computation answer with status insufficient_data; the
\* change computation's changes list is empty and its months are the rows
\* it was given.
C15_InsufficientData ==
    (~IsNone(response) /\ "via" \in DOMAIN Val(response) /\ Len(Val(request).rows) < 2) =>
        /\ Val(response).out.status = "insufficient_data"
        /\ Val(response).via = "compute_latest_kpi_changes" =>
              /\ Val(response).out.changes = << >>
              /\ Val(response).out.months = Val(request).rows

\* C15 witness: the change computation answered on a single month.
C15_Witness ==
    /\ ~IsNone(response)
    /\ Val(response).via = "compute_latest_kpi_changes"
    /\ Len(Val(request).rows) = 1
    /\ Val(response).out.status = "insufficient_data"
    /\ Len(Val(response).out.months) = 1

\* The base value is null or zero.
NoBase(o) == IsNone(o) \/ Val(o) = 0

\* A percent change is null when its base is null or zero, and a non-null
\* one is a quotient by a non-zero number.
PctNullOnNoBase(base, pct) ==
    /\ NoBase(base) => IsNone(pct)
    /\ ~IsNone(pct) => Val(pct).den # 0

\* C16: every percent change (pct_change of the change computation, the
\* driver percent changes, impact.revenue_delta_pct of the simulator) is
\* null whenever its base value is null or zero, and is never a division
\* by zero.
C16_PctNullOnZeroBase ==
    (~IsNone(response) /\ "via" \in DOMAIN Val(response)) =>
        LET rows == Val(request).rows
            n == Len(rows)
            via == Val(response).via
            out == Val(response).out
        IN  /\ (via = "compute_latest_kpi_changes" /\ n >= 2) =>
                  \A i \in 1..Len(out.changes) :
                      PctNullOnNoBase(out.changes[i].previous, out.changes[i].pct_change)
            /\ (via = "build_driver_summary_from_rows" /\ n >= 2) =>
                  \A k \in Metrics : PctNullOnNoBase(rows[n - 1][k], out.changes_pct[k])
            /\ (via = "build_driver_summary" /\ n >= 2) =>
                  \A k \in Metrics : PctNullOnNoBase(rows[2][k], out.changes_pct[k])
            /\ (via = "agent_simulate" /\ n >= 2) =>
                  PctNullOnNoBase(out.base.revenue, out.impact.revenue_delta_pct)

\* C16 witness: the change computation met a previous revenue of zero and a
\* current revenue that is not, and answered a null pct_change.
C16_Witness ==
    /\ ~IsNone(response)
    /\ Val(response).via = "compute_latest_kpi_changes"
    /\ Len(Val(request).rows) = 2
    /\ Val(request).rows[1].revenue = Some(0)
    /\ Val(request).rows[2].revenue = Some(100)
    /\ Val(response).out.changes[1].pct_change = None

\* The default threshold of a metric, in percent.
ClaimedThreshold(metric) ==
    CASE metric = "revenue" -> 15
      [] metric = "orders" -> 12
      [] metric = "customers" -> 10
      [] metric = "aov" -> 8
      [] OTHER -> 10

\* The positions of the changes whose pct_change is non-null and at least
\* the metric's default threshold in absolute value.
FlaggedPositions(changes) ==
    { i \in 1..Len(changes) :
        /\ ~IsNone(changes[i].pct_change)
        /\ Abs(Val(changes[i].pct_change).num) * 100
              >= ClaimedThreshold(changes[i].metric) * Abs(Val(changes[i].pct_change).den) }

\* The j-th flagged position in input order.
NthFlagged(changes, j) ==
    CHOOSE i \in FlaggedPositions(changes) :
        Cardinality({x \in FlaggedPositions(changes) : x <= i}) = j

\* C17: with the default thresholds and a payload of status ok, the alerts
\* are exactly the changes whose pct_change is non-null with |pct_change|
\* >= the metric's threshold (equality included), in the order of the
\* input.
C17_AlertsAtThreshold ==
    ( /\ ~IsNone(response)
      /\ "payload" \in DOMAIN Val(request)
      /\ Val(request).payload.status = "ok"
      /\ IsNone(Val(request).thresholds) ) =>
        LET changes == Val(request).payload.changes
            alerts == Val(response).out.alerts
        IN  /\ Len(alerts) = Cardinality(FlaggedPositions(changes))
            /\ \A j \in 1..Len(alerts) :
                  /\ alerts[j].metric = changes[NthFlagged(changes, j)].metric
                  /\ Some(alerts[j].pct_change) = changes[NthFlagged(changes, j)].pct_change

\* C17 witness: aov moved by exactly 8% and then revenue by exactly -15%;
\* both are flagged, the smaller move first.
C17_Witness ==
    /\ ~IsNone(response)
    /\ "payload" \in DOMAIN Val(request)
    /\ IsNone(Val(request).thresholds)
    /\ Val(request).payload.changes =
          << [metric |-> "aov", pct_change |-> Some(Frac(8, 100))],
             [metric |-> "revenue", pct_change |-> Some(Frac(-15, 100))] >>
    /\ Len(Val(response).out.alerts) = 2
    /\ Val(response).out.alerts[1].metric = "aov"

\* C18: the aggregate risk is HIGH if some alert is a revenue DOWN alert,
\* otherwise MEDIUM if there are at least two alerts, otherwise LOW.
C18_AggregateRisk ==
    ( /\ ~IsNone(response)
      /\ "payload" \in DOMAIN Val(request)
      /\ Val(request).payload.status = "ok" ) =>
        LET alerts == Val(response).out.alerts
            revenue_down == \E i \in 1..Len(alerts) :
                               alerts[i].metric = "revenue" /\ alerts[i].direction = "DOWN"
        IN  Val(response).out.risk =
                IF revenue_down THEN "HIGH"
                ELSE IF Len(alerts) >= 2 THEN "MEDIUM" ELSE "LOW"

\* C18 witness: two alerts, one of them revenue DOWN, and the risk is HIGH.
C18_Witness ==
    /\ ~IsNone(response)
    /\ "payload" \in DOMAIN Val(request)
    /\ Val(request).payload.status = "ok"
    /\ Len(Val(response).out.alerts) = 2
    /\ Val(response).out.alerts[2].metric = "revenue"
    /\ Val(response).out.alerts[2].direction = "DOWN"
    /\ Val(response).out.alerts[1].metric = "orders"
    /\ Val(response).out.risk = "HIGH"

RECURSIVE Gcd(_, _)
\* Greatest common divisor of two naturals, Gcd(0, 0) = 0.
Gcd(a, b) == IF b = 0 THEN a ELSE Gcd(b, a % b)

\* The fraction f in lowest terms with a positive denominator.
Lowest(f) ==
    IF f.den < 0
    THEN Frac((0 - f.num) \div Gcd(Abs(f.num), Abs(f.den)), Abs(f.den) \div Gcd(Abs(f.num), Abs(f.den)))
    ELSE Frac(f.num \div Gcd(Abs(f.num), Abs(f.den)), f.den \div Gcd(Abs(f.num), Abs(f.den)))

\* The fraction f equals num / den.
FracEq(f, num, den) == Lowest(f) = Lowest(Frac(num, den))

\* The optional fraction o is cur * (1 + delta) when cur is known, and null
\* when it is not.
ScaledBy(o, cur, delta) ==
    IF IsNone(cur) THEN IsNone(o)
    ELSE ~IsNone(o) /\ FracEq(Val(o), Val(cur) * (delta.den + delta.num), delta.den)

\* C19: with upstream status ok, simulated.orders = current.orders * (1 +
\* orders_delta_pct), simulated.aov = current.aov * (1 + aov_delta_pct),
\* simulated.revenue is their product (null unless both are known),
\* impact.revenue_delta = simulated.revenue - base.revenue, and
\* customers_delta_pct changes nothing but the echoed scenario.
C19_WhatIf ==
    ( /\ ~IsNone(response)
      /\ "via" \in DOMAIN Val(response)
      /\ Val(response).via = "agent_simulate"
      /\ Len(Val(request).rows) >= 2 ) =>
        LET current == Val(request).rows[2]
            sc == Val(request).scenario
            out == Val(response).out
            so == out.simulated.orders
            sa == out.simulated.aov
            sr == out.simulated.revenue
        IN  /\ out.status = "ok"
            /\ out.scenario = sc
            /\ ScaledBy(so, current.orders, sc.orders_delta_pct)
            /\ ScaledBy(sa, current.aov, sc.aov_delta_pct)
            /\ IF IsNone(so) \/ IsNone(sa) THEN IsNone(sr)
               ELSE /\ ~IsNone(sr)
                    /\ FracEq(Val(sr), Lowest(Val(so)).num * Lowest(Val(sa)).num,
                                     Lowest(Val(so)).den * Lowest(Val(sa)).den)
            /\ (~IsNone(sr) /\ ~IsNone(current.revenue)) =>
                  /\ ~IsNone(out.impact.revenue_delta)
                  /\ FracEq(Val(out.impact.revenue_delta),
                            Lowest(Val(sr)).num - Val(current.revenue) * Lowest(Val(sr)).den,
                            Lowest(Val(sr)).den)
            /\ [out EXCEPT !.scenario = None] =
                  [simulate_kpi_what_if(
                       compute_latest_kpi_changes(Val(request).rows),
                       [sc EXCEPT !.customers_delta_pct = Frac(0, 100)])
                   EXCEPT !.scenario = None]

\* C19 witness: current {orders 1000, aov 100, revenue 100000} with +10%
\* orders, -5% aov and +3% customers gives 1100, 95, 104500, delta 4500 and
\* delta pct 0.045.
C19_Witness ==
    /\ ~IsNone(response)
    /\ Val(response).via = "agent_simulate"
    /\ Len(Val(request).rows) = 2
    /\ Val(request).rows[2].orders = Some(1000)
    /\ Val(request).scenario.customers_delta_pct = Frac(3, 100)
    /\ FracEq(Val(Val(response).out.simulated.orders), 1100, 1)
    /\ FracEq(Val(Val(response).out.simulated.aov), 95, 1)
    /\ FracEq(Val(Val(response).out.simulated.revenue), 104500, 1)
    /\ FracEq(Val(Val(response).out.impact.revenue_delta), 4500, 1)
    /\ FracEq(Val(Val(response).out.impact.revenue_delta_pct), 45, 1000)

\* Whether the value dropped by 10% or more from a to b, exactly 10% included;
\* no drop is computed from a zero start.
DroppedTenPct(a, b) == a # 0 /\ 10 * (a - b) >= a

\* C20: in the rule-based narrative for revenue, over the first and last
\* row: an AOV drop of 10% or more (exactly 10% included) gives the
\* discount-driven message and the margin-audit recommendation; otherwise an
\* orders drop of 10% or more gives the funnel message and recommendation;
\* otherwise the default message with the dominant-lever recommendation.
C20_RevenueRiskInclusive ==
    ( /\ ~IsNone(response)
      /\ Val(response).via = "build_narrative"
      /\ Val(request).metric = "revenue"
      /\ Val(request).rows # << >>
      /\ Returned(Val(response).out) ) =>
        LET rows == Val(request).rows
            first == rows[1]
            last == rows[Len(rows)]
            out == Val(response).out.value
        IN  IF DroppedTenPct(Val(first.aov), Val(last.aov))
            THEN /\ out.risk = "AOV dropped materially; revenue growth may be discount-driven."
                 /\ out.recommendation = "Audit discounts, review product mix, and protect margin."
            ELSE IF DroppedTenPct(Val(first.orders), Val(last.orders))
            THEN /\ out.risk = "Orders dropped materially; demand or funnel may be weakening."
                 /\ out.recommendation =
                        "Investigate acquisition, conversion funnel, and retention actions."
            ELSE /\ out.risk = "No major risk signals detected."
                 /\ out.recommendation =
                        "Identify which lever moved most (orders vs AOV) and double-down on that driver."

\* The position of the first line of the reply that starts with the prefix.
FirstLine(lines, prefix) ==
    CHOOSE i \in 1..Len(lines) :
        /\ lines[i].head = prefix
        /\ \A j \in 1..(i - 1) : lines[j].head # prefix

\* The reply holds the section: a line starts with the prefix, and the first
\* such line has a colon followed by some text.
SectionPresent(lines, prefix) ==
    /\ \E i \in 1..Len(lines) : lines[i].head = prefix
    /\ lines[FirstLine(lines, prefix)].colon
    /\ lines[FirstLine(lines, prefix)].body # ""

\* The reply holds all of INSIGHT, RISK and RECOMMENDATION.
AllSectionsPresent(llm) ==
    /\ llm.key
    /\ llm.client = "ok"
    /\ llm.provider = "reply"
    /\ \A p \in {"INSIGHT", "RISK", "RECOMMENDATION"} : SectionPresent(llm.lines, p)

\* The triple made of the three sections of the reply.
AiTriple(lines) ==
    [narrative |-> [form |-> "ai", text |-> lines[FirstLine(lines, "INSIGHT")].body],
     risk |-> lines[FirstLine(lines, "RISK")].body,
     recommendation |-> lines[FirstLine(lines, "RECOMMENDATION")].body]

\* C21: the triple returned by the narrative engine is the three sections
\* of the AI reply when all three are present and non-empty, and otherwise
\* the rule-based triple whole; no reply lacking a section contributes a
\* part of it.
C21_AllOrNothing ==
    ( /\ ~IsNone(response)
      /\ Val(response).via = "build_llm_narrative"
      /\ Returned(Val(response).out) ) =>
        LET r == Val(request)
            out == Val(response).out.value
        IN  IF r.rows # << >> /\ AllSectionsPresent(r.llm)
            THEN out = AiTriple(r.llm.lines)
            ELSE Val(response).out = build_narrative(r.metric, r.rows, r.style)

\* C21 witness: a reply with INSIGHT and RISK but no RECOMMENDATION was
\* answered with the rule-based triple.
C21_Witness ==
    /\ ~IsNone(response)
    /\ Val(response).via = "build_llm_narrative"
    /\ Returned(Val(response).out)
    /\ Val(request).rows # << >>
    /\ Val(request).llm.provider = "reply"
    /\ SectionPresent(Val(request).llm.lines, "INSIGHT")
    /\ SectionPresent(Val(request).llm.lines, "RISK")
    /\ ~SectionPresent(Val(request).llm.lines, "RECOMMENDATION")
    /\ Val(response).out.value.narrative.form # "ai"
    /\ Val(response).out.value.risk # "ai risk"

\* C22: every payload the orchestration chain returns, in each of the modes
\* agent_llm, multi_metric_fallback and fallback_legacy, holds both a mode
\* and a final_report.
C22_EnvelopeHasFinalReport ==
    (~IsNone(response) /\ "chain" \in DOMAIN Val(response) /\ Returned(Val(response).chain)) =>
        /\ {"mode", "final_report"} \subseteq DOMAIN Val(response).chain.value
        /\ Val(response).chain.value.mode \in
               {"agent_llm", "multi_metric_fallback", "fallback_legacy"}

\* C23: every step of the debug trace carries a name, a status and either a
\* latency_ms or an error, and nothing else.
C23_StepShape ==
    (~IsNone(response) /\ Val(response).endpoint = "agent_debug") =>
        \A i \in 1..Len(Val(response).body.value.trace.steps) :
            \/ DOMAIN Val(response).body.value.trace.steps[i] = {"name", "status", "latency_ms"}
            \/ DOMAIN Val(response).body.value.trace.steps[i] = {"name", "status", "error"}

\* C26: the mode recorded by the debug trace is the mode the orchestration
\* chain selects for the same question and the same agent outcome: agent_llm
\* when the agent answers, otherwise multi_metric_fallback when the question
\* holds a keyword in any letter case and fallback_legacy when it does not.
C26_DebugModeMatchesChain ==
    (~IsNone(response) /\ Val(response).endpoint = "agent_debug") =>
        /\ Returned(run_agent_with_fallback(Val(request).question, Val(request).env)) =>
              Val(response).body.value.trace.mode =
                  run_agent_with_fallback(Val(request).question, Val(request).env).value.mode
        /\ Val(response).body.value.trace.mode =
              IF Val(request).env.agent = "ok" THEN "agent_llm"
              ELSE IF ContainsKeyword(Val(request).question) THEN "multi_metric_fallback"
              ELSE "fallback_legacy"

\* C26 witness: the agent raised on a question holding a keyword in upper
\* case, and the trace records the multi-metric mode the chain returns.
C26_Witness ==
    /\ ~IsNone(response)
    /\ Val(response).endpoint = "agent_debug"
    /\ Val(request).question = QDropUpper
    /\ Val(request).env.agent = "raise"
    /\ Returned(run_agent_with_fallback(Val(request).question, Val(request).env))
    /\ Val(response).body.value.trace.mode = "multi_metric_fallback"

\* C24: each ask-text, agent/query and ask-executive request whose chain
\* returns appends exactly one record carrying the question, the mode, the
\* latency and the status to the audit log, whenever the log store is
\* reachable.
C24_OneLogRecord ==
    ( /\ ~IsNone(response)
      /\ Val(response).endpoint \in {"ask_text", "agent_query", "ask_executive"}
      /\ Returned(Val(response).chain)
      /\ Val(request).env.db = "ok" ) =>
        /\ Len(agent_query_log) = 1
        /\ agent_query_log[1].question = Val(request).question
        /\ agent_query_log[1].mode = Val(response).chain.value.mode
        /\ agent_query_log[1].status = "ok"
        /\ agent_query_log[1].latency_ms = Val(response).body.value.latency_ms

\* C25: the job store lock is never held while the orchestration chain
\* runs. Whoever holds the lock is inside a mark operation; a job whose
\* chain is running is RUNNING and does not hold it, so that create and the
\* other jobs' mark operations proceed meanwhile; and a submitted job's task
\* has not run when the submit returns.
C25_LockNotHeldAcrossChain ==
    /\ ~IsNone(LOCK) =>
          /\ Val(LOCK) \in DOMAIN runner
          /\ runner[Val(LOCK)].op \in MarkOps
          /\ runner[Val(LOCK)].k >= 1
    /\ \A j \in DOMAIN runner :
          runner[j].op = "chain" =>
              /\ JOBS[j].status = "RUNNING"
              /\ LOCK # Some(j)
              /\ (IsNone(LOCK) /\ Cardinality(DOMAIN JOBS) < MaxJobs) => ENABLED Submit
              /\ \A i \in DOMAIN runner \ {j} :
                    (runner[i].op \in MarkOps /\ (IsNone(LOCK) \/ LOCK = Some(i))) =>
                        ENABLED MarkStep(i)

\* C25 witness: while job 1's chain is running, job 2 has been created and
\* its task is inside a mark operation, holding the lock.
C25_Witness ==
    /\ DOMAIN runner = {1, 2}
    /\ runner[1].op = "chain"
    /\ JOBS[1].status = "RUNNING"
    /\ runner[2].op = "set_job_running"
    /\ LOCK = Some(2)

\* The percentage the one-liner shows for orders or aov: 0.0 when unknown.
ShownPct(pct) == IF IsNone(pct) THEN Some(Frac(0, 1)) ELSE pct

\* C27: a driver summary with status ok has the templated one-liner as its
\* executive_summary, embedding the revenue, orders and aov percentages with
\* 0.0 for an unavailable orders or aov; build_driver_summary and
\* build_driver_summary_from_rows give the same summary for the same
\* previous and current values.
C27_ExecutiveSummaryTemplate ==
    ( /\ ~IsNone(response)
      /\ Val(response).via \in {"build_driver_summary", "build_driver_summary_from_rows"}
      /\ Val(response).out.status = "ok" ) =>
        /\ Val(response).out.executive_summary.form = "one_liner"
        /\ Val(response).out.executive_summary.revenue = Val(response).out.changes_pct.revenue
        /\ Val(response).out.executive_summary.orders =
               ShownPct(Val(response).out.changes_pct.orders)
        /\ Val(response).out.executive_summary.aov =
               ShownPct(Val(response).out.changes_pct.aov)
        /\ Val(response).via = "build_driver_summary" =>
               Val(response).out.executive_summary =
                   build_driver_summary_from_rows(
                       << Val(request).rows[2], Val(request).rows[1] >>).executive_summary

\* C28: under any interleaving of creates and mark operations, a step of a
\* mark operation on one job leaves every other job's record and the set of
\* job ids unchanged; the job_id, created_at and payload of a job never
\* change; and a job id once in the registry stays in it.
C28_FrameOfMark ==
    [][ /\ \A j \in DOMAIN JOBS :
            /\ j \in DOMAIN JOBS'
            /\ JOBS'[j].job_id = JOBS[j].job_id
            /\ JOBS'[j].created_at = JOBS[j].created_at
            /\ JOBS'[j].payload = JOBS[j].payload
        /\ \A a \in DOMAIN runner :
            (runner[a].op \in MarkOps /\ runner'[a] # runner[a]) =>
                /\ DOMAIN JOBS' = DOMAIN JOBS
                /\ \A j \in DOMAIN JOBS \ {a} : JOBS'[j] = JOBS[j] ]_vars

\* C28 witness: job 2 was created after job 1 and marked up to SUCCEEDED
\* while job 1 is still as created.
C28_Witness ==
    /\ DOMAIN JOBS = {1, 2}
    /\ JOBS[1].status = "PENDING"
    /\ runner[1] = run_job_start
    /\ JOBS[2].status = "SUCCEEDED"
    /\ runner[2].op = "done"
    /\ JOBS[1] = new_job(1, JOBS[1].created_at, JOBS[1].payload)

\* C29: whatever thresholds the caller gives, every DOWN alert has a
\* negative pct_change and every UP alert a positive one, and the risk is
\* HIGH only if the revenue change is negative.
C29_DirectionMatchesSign ==
    ( /\ ~IsNone(response)
      /\ "payload" \in DOMAIN Val(request)
      /\ Val(request).payload.status = "ok" ) =>
        /\ \A i \in 1..Len(Val(response).out.alerts) :
              /\ Val(response).out.alerts[i].direction = "DOWN" =>
                    Val(response).out.alerts[i].pct_change.num < 0
              /\ Val(response).out.alerts[i].direction = "UP" =>
                    Val(response).out.alerts[i].pct_change.num > 0
        /\ Val(response).out.risk = "HIGH" =>
              \E i \in 1..Len(Val(request).payload.changes) :
                  /\ Val(request).payload.changes[i].metric = "revenue"
                  /\ ~IsNone(Val(request).payload.changes[i].pct_change)
                  /\ Val(Val(request).payload.changes[i].pct_change).num < 0

\* C30: for a current month with non-null orders, aov and revenue, the
\* scenario that changes neither orders nor aov gives back the base
\* revenue: simulated.revenue = base.revenue and impact.revenue_delta = 0,
\* whatever aov is stored.
C30_IdentityScenario ==
    ( /\ ~IsNone(response)
      /\ Val(response).via = "agent_simulate"
      /\ Len(Val(request).rows) >= 2
      /\ ~IsNone(Val(request).rows[2].orders)
      /\ ~IsNone(Val(request).rows[2].aov)
      /\ ~IsNone(Val(request).rows[2].revenue)
      /\ Val(request).scenario.orders_delta_pct.num = 0
      /\ Val(request).scenario.aov_delta_pct.num = 0 ) =>
        /\ Val(response).out.base.revenue = Val(request).rows[2].revenue
        /\ ~IsNone(Val(response).out.simulated.revenue)
        /\ FracEq(Val(Val(response).out.simulated.revenue), Val(Val(request).rows[2].revenue), 1)
        /\ ~IsNone(Val(response).out.impact.revenue_delta)
        /\ FracEq(Val(Val(response).out.impact.revenue_delta), 0, 1)

====
